---- MODULE Spec2Model ----
(***************************************************************************)
(* Decision-and-motion engine of the Pac-Man game (src/pacman.py): the     *)
(* grid/wall model, the ghost-home distance field, the ghost direction     *)
(* planner, and the per-tick game loop.                                    *)
(***************************************************************************)
EXTENDS Integers, Sequences, FiniteSets, TLC

(***************************************************************************)
(* Directions (src/pacman.py:33-34).                                       *)
(***************************************************************************)
N4 == 0
E4 == 1
S4 == 2
W4 == 3
DR4 == [d \in 0..3 |-> CASE d = 0 -> -1 [] d = 1 -> 0 [] d = 2 -> 1 [] d = 3 -> 0]
DC4 == [d \in 0..3 |-> CASE d = 0 -> 0 [] d = 1 -> 1 [] d = 2 -> 0 [] d = 3 -> -1]
Dirs == 0..3
\* the planners' iteration order  for d in [N4, W4, S4, E4]
PlanOrder == <<N4, W4, S4, E4>>
Opposite(d) == (d + 2) % 4
Step(cell, d) == <<cell[1] + DR4[d], cell[2] + DC4[d]>>
InGrid(gs, cell) == 0 <= cell[1] /\ cell[1] < gs /\ 0 <= cell[2] /\ cell[2] < gs
Cells(gs) == (0..(gs - 1)) \X (0..(gs - 1))

(***************************************************************************)
(* Maze input (maze_data).  h_walls and v_walls are functions on 0-based   *)
(* <<row, col>> index pairs; an index outside the DOMAIN is Python's       *)
(* IndexError.                                                             *)
(***************************************************************************)
HEntries(gs) == (0..gs) \X (0..(gs - 1))
VEntries(gs) == (0..(gs - 1)) \X (0..gs)
HBoundary(gs) == {e \in HEntries(gs) : e[1] = 0 \/ e[1] = gs}
VBoundary(gs) == {e \in VEntries(gs) : e[2] = 0 \/ e[2] = gs}

\* has_wall reading the south wall from the cell's own row of h_walls
has_wall_own_row(m, r, c, direction4) ==
    LET gs == m.grid_size
        at(w, i, j) == IF <<i, j>> \in DOMAIN w THEN w[<<i, j>>] ELSE TRUE
    IN IF ~(0 <= r /\ r < gs /\ 0 <= c /\ c < gs) THEN TRUE
       ELSE CASE direction4 = N4 -> at(m.h_walls, r, c)
              [] direction4 = E4 -> at(m.v_walls, r, c + 1)
              [] direction4 = S4 -> at(m.h_walls, r, c)
              [] direction4 = W4 -> at(m.v_walls, r, c)
              [] OTHER -> FALSE

has_wall(m, r, c, direction4) ==
    LET gs == m.grid_size
        at(w, i, j) == IF <<i, j>> \in DOMAIN w THEN w[<<i, j>>] ELSE TRUE
    IN IF ~(0 <= r /\ r < gs /\ 0 <= c /\ c < gs) THEN TRUE
       ELSE CASE direction4 = N4 -> at(m.h_walls, r, c)
              [] direction4 = E4 -> at(m.v_walls, r, c + 1)
              [] direction4 = S4 -> at(m.h_walls, r + 1, c)
              [] direction4 = W4 -> at(m.v_walls, r, c)
              [] OTHER -> FALSE

(***************************************************************************)
(* Bounds of the input families.                                           *)
(***************************************************************************)
\* largest grid_size of the generated grids
MaxGridSize == 3
\* most goal cells of a generated input
MaxGoals == 2
\* most cell-to-cell moves of a walk
MaxWalk == 5

RECURSIVE SubsetsUpTo(_, _)
SubsetsUpTo(E, k) ==
    IF k = 0 THEN {{}}
    ELSE LET P == SubsetsUpTo(E, k - 1) IN P \cup {S \cup {e} : S \in P, e \in E}

\* the wall matrices of a gs x gs grid: every boundary entry a wall except
\* those in open, every interior entry open except those in inner
MazeOf(gs, open, inner, start, goals) ==
    [grid_size |-> gs,
     h_walls |-> [e \in HEntries(gs) |->
                    IF e \in HBoundary(gs) THEN <<"h", e>> \notin open ELSE <<"h", e>> \in inner],
     v_walls |-> [e \in VEntries(gs) |->
                    IF e \in VBoundary(gs) THEN <<"v", e>> \notin open ELSE <<"v", e>> \in inner],
     start_cell |-> start,
     goal_cells |-> goals]

BoundaryEntries(gs) ==
    {<<"h", e>> : e \in HBoundary(gs)} \cup {<<"v", e>> : e \in VBoundary(gs)}
InnerEntries(gs) ==
    {<<"h", e>> : e \in HEntries(gs) \ HBoundary(gs)} \cup
    {<<"v", e>> : e \in VEntries(gs) \ VBoundary(gs)}
\* boundary fully walled, or exactly one boundary entry false
OpenChoices(gs) == {{}} \cup {{e} : e \in BoundaryEntries(gs)}

(***************************************************************************)
(* _create_ghost_return_map (src/pacman.py:266-288).  Inf is float('inf'). *)
(* seedOrder is the iteration order of the goal_cells set.                 *)
(***************************************************************************)
Inf == 1000000

FallbackGoal(gs) == <<(gs \div 2) - 1, (gs \div 2) - 1>>

\* a breadth-first search that gives a newly reached cell the distance 1
\* whatever the distance of the cell it is reached from
RECURSIVE ExploreFlat(_, _, _, _, _)
ExploreFlat(m, map, q, cell, d) ==
    IF d > 3 THEN [map |-> map, q |-> q]
    ELSE LET n == Step(cell, d)
         IN IF ~has_wall(m, cell[1], cell[2], d) /\ InGrid(m.grid_size, n) /\ map[n] = Inf
            THEN ExploreFlat(m, [map EXCEPT ![n] = 1], Append(q, n), cell, d + 1)
            ELSE ExploreFlat(m, map, q, cell, d + 1)

\* the inner loop  for dir4 in range(4)  from direction d on
RECURSIVE Explore(_, _, _, _, _)
Explore(m, map, q, cell, d) ==
    IF d > 3 THEN [map |-> map, q |-> q]
    ELSE LET n == Step(cell, d)
         IN IF ~has_wall(m, cell[1], cell[2], d) /\ InGrid(m.grid_size, n) /\ map[n] = Inf
            THEN Explore(m, [map EXCEPT ![n] = map[cell] + 1], Append(q, n), cell, d + 1)
            ELSE Explore(m, map, q, cell, d + 1)

\* the loop  while q
RECURSIVE Flood(_, _, _)
Flood(m, map, q) ==
    IF q = <<>> THEN map
    ELSE LET e == Explore(m, map, Tail(q), Head(q), 0) IN Flood(m, e.map, e.q)

\* the seeding loop over goal_cells, in iteration order
RECURSIVE Seed(_, _, _, _)
Seed(gs, map, q, order) ==
    IF order = <<>> THEN [map |-> map, q |-> q]
    ELSE LET g == Head(order)
         IN IF InGrid(gs, g)
            THEN Seed(gs, [map EXCEPT ![g] = 0], Append(q, g), Tail(order))
            ELSE Seed(gs, map, q, Tail(order))

\* goal_cells after the fallback of lines 271-273
GoalsWithFallback(gs, goals) == IF goals = {} THEN {FallbackGoal(gs)} ELSE goals

\* seedOrder enumerates GoalsWithFallback(m.grid_size, m.goal_cells)
CreateGhostReturnMap(m, seedOrder) ==
    LET gs == m.grid_size
        s == Seed(gs, [c \in Cells(gs) |-> Inf], <<>>, seedOrder)
    IN Flood(m, s.map, s.q)

\* the sequences that enumerate the set S once each
RECURSIVE Orders(_)
Orders(S) ==
    IF S = {} THEN {<<>>}
    ELSE UNION {{<<x>> \o o : o \in Orders(S \ {x})} : x \in S}

(***************************************************************************)
(* _get_ghost_next_direction (src/pacman.py:415-463).  A ghost is a record *)
(* with the fields of the ghost dictionaries; s is a record holding        *)
(* pacman_pos, pacman_dir and ghosts.  A result is [raised, dir]: raised   *)
(* is numpy's IndexError leaving the method.                               *)
(***************************************************************************)
GhostIds == 0..3

ValidMoves(m, pos) == {d \in Dirs : ~has_wall(m, pos[1], pos[2], d)}

\* valid_moves with the reverse kept
KeepReverse(valid, dir) == valid

\* valid_moves after  if len(valid_moves) > 1 and opposite_dir in valid_moves: remove
NonReversing(valid, dir) ==
    IF Cardinality(valid) > 1 /\ Opposite(dir) \in valid THEN valid \ {Opposite(dir)} ELSE valid

DistSq(a, b) == (a[1] - b[1]) * (a[1] - b[1]) + (a[2] - b[2]) * (a[2] - b[2])

\* numpy index i on an axis of length gs: negative indices count from the
\* end, the others raise IndexError
NpRaises(i, gs) == i >= gs \/ i < -gs
NpIndex(i, gs) == IF i < 0 THEN i + gs ELSE i

\* ghost_return_map[r, c]
MapRaises(gs, cell) == NpRaises(cell[1], gs) \/ NpRaises(cell[2], gs)
MapAt(map, gs, cell) == map[<<NpIndex(cell[1], gs), NpIndex(cell[2], gs)>>]

\* lines 422-426 from position i of [N4, W4, S4, E4] on
RECURSIVE EatenScan(_, _, _, _, _)
EatenScan(m, map, ghost, current_dist, i) ==
    IF i > 4 THEN [raised |-> FALSE, dir |-> ghost.dir]
    ELSE LET d == PlanOrder[i]
         IN IF has_wall(m, ghost.pos[1], ghost.pos[2], d)
            THEN EatenScan(m, map, ghost, current_dist, i + 1)
            ELSE IF MapRaises(m.grid_size, Step(ghost.pos, d))
            THEN [raised |-> TRUE, dir |-> ghost.dir]
            ELSE IF MapAt(map, m.grid_size, Step(ghost.pos, d)) < current_dist
            THEN [raised |-> FALSE, dir |-> d]
            ELSE EatenScan(m, map, ghost, current_dist, i + 1)

EatenDirection(m, map, ghost) ==
    IF MapRaises(m.grid_size, ghost.pos) THEN [raised |-> TRUE, dir |-> ghost.dir]
    ELSE EatenScan(m, map, ghost, MapAt(map, m.grid_size, ghost.pos), 1)

\* the directions random.choice can return in the frightened branch
FrightenedOptions(m, ghost) ==
    LET valid_moves == NonReversing(ValidMoves(m, ghost.pos), ghost.dir)
    IN IF valid_moves # {} THEN valid_moves ELSE {Opposite(ghost.dir)}

\* the targets with  >=  for  >  in the Patrol ghost's distance test
TargetTileAtLeast(m, s, ghost) ==
    LET pac == s.pacman_pos
        pac_dir == s.pacman_dir
    IN CASE ghost.id = 0 -> pac
         [] ghost.id = 1 ->
              LET t == <<pac[1] + 4 * DR4[pac_dir], pac[2] + 4 * DC4[pac_dir]>>
              IN IF pac_dir = N4 THEN <<t[1], t[2] - 4>> ELSE t
         [] ghost.id = 2 ->
              LET b == s.ghosts[0].pos
                  a == <<pac[1] + 2 * DR4[pac_dir], pac[2] + 2 * DC4[pac_dir]>>
              IN <<a[1] + (a[1] - b[1]), a[2] + (a[2] - b[2])>>
         [] OTHER ->
              IF DistSq(ghost.pos, pac) >= 64 THEN pac ELSE <<m.grid_size - 1, 0>>

\* lines 434-450
TargetTile(m, s, ghost) ==
    LET pac == s.pacman_pos
        pac_dir == s.pacman_dir
    IN CASE ghost.id = 0 -> pac
         [] ghost.id = 1 ->
              LET t == <<pac[1] + 4 * DR4[pac_dir], pac[2] + 4 * DC4[pac_dir]>>
              IN IF pac_dir = N4 THEN <<t[1], t[2] - 4>> ELSE t
         [] ghost.id = 2 ->
              LET b == s.ghosts[0].pos
                  a == <<pac[1] + 2 * DR4[pac_dir], pac[2] + 2 * DC4[pac_dir]>>
              IN <<a[1] + (a[1] - b[1]), a[2] + (a[2] - b[2])>>
         [] OTHER ->
              IF DistSq(ghost.pos, pac) > 64 THEN pac ELSE <<m.grid_size - 1, 0>>

\* the scan of lines 458-462 with  <=  for  < : the last of equally close
\* directions wins
RECURSIVE ChaseScanLast(_, _, _, _, _, _)
ChaseScanLast(pos, valid_moves, target_tile, best_dir, min_dist_sq, i) ==
    IF i > 4 THEN best_dir
    ELSE LET d == PlanOrder[i]
             dist_sq == DistSq(target_tile, Step(pos, d))
         IN IF d \in valid_moves /\ dist_sq <= min_dist_sq
            THEN ChaseScanLast(pos, valid_moves, target_tile, d, dist_sq, i + 1)
            ELSE ChaseScanLast(pos, valid_moves, target_tile, best_dir, min_dist_sq, i + 1)

\* lines 458-462 from position i of [N4, W4, S4, E4] on; best_dir -1 is none yet
RECURSIVE ChaseScan(_, _, _, _, _, _)
ChaseScan(pos, valid_moves, target_tile, best_dir, min_dist_sq, i) ==
    IF i > 4 THEN best_dir
    ELSE LET d == PlanOrder[i]
             dist_sq == DistSq(target_tile, Step(pos, d))
         IN IF d \in valid_moves /\ dist_sq < min_dist_sq
            THEN ChaseScan(pos, valid_moves, target_tile, d, dist_sq, i + 1)
            ELSE ChaseScan(pos, valid_moves, target_tile, best_dir, min_dist_sq, i + 1)

\* lines 452-463
ChaseDirection(m, ghost, target_tile) ==
    LET valid_moves == NonReversing(ValidMoves(m, ghost.pos), ghost.dir)
        best_dir == ChaseScan(ghost.pos, valid_moves, target_tile, -1, Inf, 1)
    IN IF best_dir # -1 THEN best_dir ELSE Opposite(ghost.dir)

\* rnd is the direction random.choice draws, one of FrightenedOptions
GetGhostNextDirection(m, map, s, ghost, rnd) ==
    IF ghost.state = "eaten" THEN EatenDirection(m, map, ghost)
    ELSE IF ghost.state = "frightened" THEN [raised |-> FALSE, dir |-> rnd]
    ELSE [raised |-> FALSE, dir |-> ChaseDirection(m, ghost, TargetTile(m, s, ghost))]

\* a decision block that leaves the flag set where the reverse is walled
GhostDecideKeepFlag(m, map, s, ghost, rnd) ==
    LET opposite_dir == Opposite(ghost.dir)
        go(g) == IF ~has_wall(m, ghost.pos[1], ghost.pos[2], g.dir)
                 THEN [g EXCEPT !.is_moving = TRUE] ELSE g
    IN IF ghost.reversal_pending
       THEN IF ~has_wall(m, ghost.pos[1], ghost.pos[2], opposite_dir)
            THEN [raised |-> FALSE,
                  ghost |-> go([ghost EXCEPT !.dir = opposite_dir, !.reversal_pending = FALSE])]
            ELSE LET r == GetGhostNextDirection(m, map, s, ghost, rnd)
                 IN IF r.raised THEN [raised |-> TRUE, ghost |-> ghost]
                    ELSE [raised |-> FALSE, ghost |-> go([ghost EXCEPT !.dir = r.dir])]
       ELSE LET g1 == IF ghost.state = "eaten" /\ ghost.pos \in m.goal_cells
                      THEN [ghost EXCEPT !.state = "active"] ELSE ghost
                r == GetGhostNextDirection(m, map, s, g1, rnd)
            IN IF r.raised THEN [raised |-> TRUE, ghost |-> g1]
               ELSE [raised |-> FALSE, ghost |-> go([g1 EXCEPT !.dir = r.dir])]

(***************************************************************************)
(* The decision block of the game loop for one ghost that is not moving    *)
(* and not waiting (src/pacman.py:523-533).  Result [raised, ghost].       *)
(***************************************************************************)
GhostDecide(m, map, s, ghost, rnd) ==
    LET opposite_dir == Opposite(ghost.dir)
        go(g) == IF ~has_wall(m, ghost.pos[1], ghost.pos[2], g.dir)
                 THEN [g EXCEPT !.is_moving = TRUE] ELSE g
    IN IF ghost.reversal_pending
       THEN IF ~has_wall(m, ghost.pos[1], ghost.pos[2], opposite_dir)
            THEN [raised |-> FALSE,
                  ghost |-> go([ghost EXCEPT !.dir = opposite_dir, !.reversal_pending = FALSE])]
            ELSE LET r == GetGhostNextDirection(m, map, s, ghost, rnd)
                 IN IF r.raised THEN [raised |-> TRUE, ghost |-> ghost]
                    ELSE [raised |-> FALSE,
                          ghost |-> go([ghost EXCEPT !.dir = r.dir, !.reversal_pending = FALSE])]
       ELSE LET g1 == IF ghost.state = "eaten" /\ ghost.pos \in m.goal_cells
                      THEN [ghost EXCEPT !.state = "active"] ELSE ghost
                r == GetGhostNextDirection(m, map, s, g1, rnd)
            IN IF r.raised THEN [raised |-> TRUE, ghost |-> g1]
               ELSE [raised |-> FALSE, ghost |-> go([g1 EXCEPT !.dir = r.dir])]

(***************************************************************************)
(* Game constants (src/pacman.py:23-30) and units.  Times are in           *)
(* milliseconds, speeds in tenths of a cell per second, multipliers in     *)
(* thousandths, positions in pixels with cell_visual_size_px pixels per    *)
(* cell; products are rounded down to whole units.                         *)
(***************************************************************************)
PACMAN_BASE_SPEED_CPS == 25
GHOST_SPEEDS_CPS == <<24, 23, 26, 22>>
PACMAN_MAX_SPEED_MODIFIER == 1500
MARGIN == 25
cell_visual_size_px == 1000
\* if delta_t > 0.1: delta_t = 0.1
MaxDeltaT == 100
\* 'release_time': i * 3.0
ReleaseStep == 3000
\* self.frightened_timer = 8.0
FrightenedTime == 8000
\* self.ghost_eaten_bonus = 200
BaseBonus == 200
\* DEATH_ANIM_DURATION = 2.0
DEATH_ANIM_DURATION == 2000
\* after(1000, lambda: setattr(self, 'pacman_eating_ghost', None))
EatingFreeze == 1000
\* len(self.sound_ghosts)
NumSounds == 5

\* cell_center_to_pixel: <<x, y>>
CellCenterToPixel(cell) ==
    <<MARGIN + ((2 * cell[2] + 1) * cell_visual_size_px) \div 2,
      MARGIN + ((2 * cell[1] + 1) * cell_visual_size_px) \div 2>>

(***************************************************************************)
(* start_game (src/pacman.py:204-255).                                     *)
(***************************************************************************)
\* _find_accessible_pellets: the cells visited from start_cell
RECURSIVE Visit(_, _, _)
Visit(m, visited, frontier) ==
    IF frontier = {} THEN visited
    ELSE LET nxt == UNION {{Step(c, d) : d \in {x \in Dirs :
                                ~has_wall(m, c[1], c[2], x)
                                /\ InGrid(m.grid_size, Step(c, x))}} : c \in frontier} \ visited
         IN Visit(m, visited \cup nxt, nxt)

FindAccessiblePellets(m) == Visit(m, {m.start_cell}, {m.start_cell})

\* _place_power_pellets: for each corner the first accessible non-goal cell,
\* scanning r_offset then c_offset in range(gs // 4) towards the middle
PlacePowerPellets(m, accessible_cells) ==
    LET gs == m.grid_size
        corners == {<<1, 1>>, <<1, gs - 2>>, <<gs - 2, 1>>, <<gs - 2, gs - 2>>}
        offs == (0..((gs \div 4) - 1)) \X (0..((gs \div 4) - 1))
        check(k, o) == <<IF 2 * k[1] < gs THEN k[1] + o[1] ELSE k[1] - o[1],
                         IF 2 * k[2] < gs THEN k[2] + o[2] ELSE k[2] - o[2]>>
        ok(k, o) == check(k, o) \in accessible_cells /\ check(k, o) \notin m.goal_cells
        before(a, b) == a[1] < b[1] \/ (a[1] = b[1] /\ a[2] <= b[2])
        first(k) == CHOOSE o \in offs : ok(k, o) /\ \A x \in offs : ok(k, x) => before(o, x)
    IN {check(k, first(k)) : k \in {c \in corners : \E o \in offs : ok(c, o)}}

DefaultStarts(gs) ==
    LET center == gs \div 2
    IN <<<<center - 2, center - 1>>, <<center - 1, center - 2>>,
         <<center - 1, center>>, <<center, center - 1>>>>

\* the ghost dictionaries of lines 239-246 and of the reset of lines 401-407;
\* goal_cell_list is list(self.goal_cells)
GhostStart(gs, goal_cell_list, i) ==
    IF i < Len(goal_cell_list) THEN goal_cell_list[i + 1] ELSE DefaultStarts(gs)[i + 1]

StartGhost(gs, goal_cell_list, i) ==
    LET pos == GhostStart(gs, goal_cell_list, i)
    IN [id |-> i, pos |-> pos, px |-> CellCenterToPixel(pos)[1], py |-> CellCenterToPixel(pos)[2],
        dir |-> N4, state |-> "waiting", release_time |-> i * ReleaseStep,
        is_moving |-> FALSE, reversal_pending |-> FALSE]

\* the fields start_game and __init__ set; md is maze_data, goal_cell_list the
\* iteration order of the goal set after the fallback
StartGame(md, goal_cell_list, pygame) ==
    LET accessible_cells == FindAccessiblePellets(md)
        power == PlacePowerPellets(md, accessible_cells)
        pellets == (accessible_cells \ md.goal_cells) \ power
    IN [PYGAME_AVAILABLE |-> pygame,
        pacman_is_dying |-> FALSE, pacman_eating_ghost |-> FALSE,
        pacman_score |-> 0, pacman_lives |-> 3,
        pacman_pos |-> md.start_cell,
        pacman_px |-> CellCenterToPixel(md.start_cell)[1],
        pacman_py |-> CellCenterToPixel(md.start_cell)[2],
        pacman_dir |-> E4, pacman_next_dir |-> E4, pacman_is_moving |-> FALSE,
        ghost_speed_multiplier |-> 1000, pacman_game_over_state |-> "none",
        frightened_timer |-> 0, ghost_eaten_bonus |-> BaseBonus,
        pacman_pellets |-> pellets, pacman_power_pellets |-> power,
        pacman_initial_pellet_count |-> Cardinality(pellets) + Cardinality(power),
        pacman_current_ghost_sound_index |-> -1,
        pacman_start_time |-> 0, elapsed_time |-> 0,
        ghosts |-> [i \in GhostIds |-> StartGhost(md.grid_size, goal_cell_list, i)]]

(***************************************************************************)
(* _start_ghost_siren (src/pacman.py:326-350) on the game record s.        *)
(***************************************************************************)
PelletsLeft(s) == Cardinality(s.pacman_pellets) + Cardinality(s.pacman_power_pellets)

\* min(int(percent_eaten * num_sounds), num_sounds - 1)
TargetSoundIndex(s) ==
    LET pellets_eaten == s.pacman_initial_pellet_count - PelletsLeft(s)
        idx == IF s.pacman_initial_pellet_count > 0
               THEN (pellets_eaten * NumSounds) \div s.pacman_initial_pellet_count ELSE 0
    IN IF idx < NumSounds - 1 THEN idx ELSE NumSounds - 1

StartGhostSiren(s) ==
    IF ~s.PYGAME_AVAILABLE \/ s.pacman_is_dying \/ s.frightened_timer > 0 THEN s
    ELSE LET t == TargetSoundIndex(s)
             cur == s.pacman_current_ghost_sound_index
         IN IF cur # t /\ cur # -1
            THEN [s EXCEPT !.ghost_speed_multiplier = (s.ghost_speed_multiplier * 105) \div 100,
                           !.ghosts = [i \in GhostIds |->
                               IF s.ghosts[i].state = "active"
                               THEN [s.ghosts[i] EXCEPT !.reversal_pending = TRUE]
                               ELSE s.ghosts[i]],
                           !.pacman_current_ghost_sound_index = t]
            ELSE [s EXCEPT !.pacman_current_ghost_sound_index = t]

(***************************************************************************)
(* The stages of _pacman_game_loop (src/pacman.py:471-578) on the game     *)
(* record s; delta_t is the clamped delta.  A stage result carries in      *)
(* stop the way the tick ended early: "win", "raised" or "dying".          *)
(***************************************************************************)
\* speed_cps * cell_visual_size_px * delta_t, speed in tenths and mult in thousandths
MoveDistance(speed10, mult, delta_t) ==
    (((speed10 * mult) \div 10) * ((cell_visual_size_px * delta_t) \div 1000)) \div 1000

\* percent_eaten ** 0.7 in thousandths, from the tenths of percent_eaten
Pow07 == <<0, 200, 324, 431, 527, 616, 699, 779, 855, 929, 1000>>

PacmanSpeedModifier(s) ==
    LET pellets_eaten == s.pacman_initial_pellet_count - PelletsLeft(s)
        tenths == IF s.pacman_initial_pellet_count > 0
                  THEN (pellets_eaten * 10) \div s.pacman_initial_pellet_count ELSE 0
    IN 1000 + (Pow07[tenths + 1] * PACMAN_MAX_SPEED_MODIFIER) \div 1000

\* lines 489-490
EatPellet(s) ==
    IF s.pacman_pos \in s.pacman_pellets
    THEN [s EXCEPT !.pacman_pellets = @ \ {s.pacman_pos}, !.pacman_score = @ + 10]
    ELSE s

\* the power pellet leaves the ghosts as they are
EatPowerPelletNoFright(s) ==
    IF s.pacman_pos \in s.pacman_power_pellets
    THEN [s EXCEPT !.pacman_power_pellets = @ \ {s.pacman_pos}, !.pacman_score = @ + 50,
                   !.frightened_timer = FrightenedTime, !.ghost_eaten_bonus = BaseBonus]
    ELSE s

\* a power pellet that leaves the catch bonus as it is
EatPowerPelletKeepBonus(s) ==
    IF s.pacman_pos \in s.pacman_power_pellets
    THEN [s EXCEPT !.pacman_power_pellets = @ \ {s.pacman_pos}, !.pacman_score = @ + 50,
                   !.frightened_timer = FrightenedTime,
                   !.ghosts = [i \in GhostIds |->
                       IF s.ghosts[i].state \in {"active", "frightened"}
                       THEN [s.ghosts[i] EXCEPT !.state = "frightened", !.reversal_pending = TRUE]
                       ELSE s.ghosts[i]]]
    ELSE s

\* lines 491-495
EatPowerPellet(s) ==
    IF s.pacman_pos \in s.pacman_power_pellets
    THEN [s EXCEPT !.pacman_power_pellets = @ \ {s.pacman_pos}, !.pacman_score = @ + 50,
                   !.frightened_timer = FrightenedTime, !.ghost_eaten_bonus = BaseBonus,
                   !.ghosts = [i \in GhostIds |->
                       IF s.ghosts[i].state \in {"active", "frightened"}
                       THEN [s.ghosts[i] EXCEPT !.state = "frightened", !.reversal_pending = TRUE]
                       ELSE s.ghosts[i]]]
    ELSE s

\* lines 502-504
PacmanTurn(m, s) ==
    LET r == s.pacman_pos[1]
        c == s.pacman_pos[2]
        s1 == IF s.pacman_dir # s.pacman_next_dir /\ ~has_wall(m, r, c, s.pacman_next_dir)
              THEN [s EXCEPT !.pacman_dir = s.pacman_next_dir] ELSE s
    IN IF ~has_wall(m, r, c, s1.pacman_dir) THEN [s1 EXCEPT !.pacman_is_moving = TRUE] ELSE s1

\* lines 506-517
PacmanMove(s, delta_t) ==
    IF ~s.pacman_is_moving THEN s
    ELSE LET move_distance == MoveDistance(PACMAN_BASE_SPEED_CPS, PacmanSpeedModifier(s), delta_t)
             px == s.pacman_px + DC4[s.pacman_dir] * move_distance
             py == s.pacman_py + DR4[s.pacman_dir] * move_distance
             nxt == Step(s.pacman_pos, s.pacman_dir)
             center == CellCenterToPixel(nxt)
         IN IF \/ (s.pacman_dir = E4 /\ px >= center[1]) \/ (s.pacman_dir = W4 /\ px <= center[1])
               \/ (s.pacman_dir = S4 /\ py >= center[2]) \/ (s.pacman_dir = N4 /\ py <= center[2])
            THEN [s EXCEPT !.pacman_is_moving = FALSE, !.pacman_pos = nxt,
                           !.pacman_px = center[1], !.pacman_py = center[2]]
            ELSE [s EXCEPT !.pacman_px = px, !.pacman_py = py]

\* the session is won as soon as no regular pellet is left
PacmanStageWinEarly(m, s, delta_t) ==
    IF s.pacman_is_moving
    THEN [s |-> PacmanMove(s, delta_t), stop |-> "no", marked |-> s]
    ELSE LET s2 == EatPowerPellet(EatPellet(s))
         IN IF s2.pacman_pellets = {}
            THEN [s |-> [s2 EXCEPT !.pacman_game_over_state = "win"], stop |-> "win", marked |-> s2]
            ELSE [s |-> PacmanMove(PacmanTurn(m, s2), delta_t), stop |-> "no", marked |-> s2]

\* lines 487-517; the result adds stop and the record after the marker step
PacmanStage(m, s, delta_t) ==
    IF s.pacman_is_moving
    THEN [s |-> PacmanMove(s, delta_t), stop |-> "no", marked |-> s]
    ELSE LET s2 == EatPowerPellet(EatPellet(s))
         IN IF s2.pacman_pellets = {} /\ s2.pacman_power_pellets = {}
            THEN [s |-> [s2 EXCEPT !.pacman_game_over_state = "win"], stop |-> "win", marked |-> s2]
            ELSE [s |-> PacmanMove(PacmanTurn(m, s2), delta_t), stop |-> "no", marked |-> s2]

\* lines 521-522
Release(m, ghost, elapsed_time) ==
    IF ghost.state = "waiting" /\ elapsed_time >= ghost.release_time
    THEN [ghost EXCEPT !.state = "active", !.is_moving = TRUE]
    ELSE ghost

\* lines 534-545
GhostMove(s, ghost, delta_t) ==
    IF ~ghost.is_moving THEN ghost
    ELSE LET mult == IF ghost.state = "frightened" THEN 800
                     ELSE IF ghost.state = "eaten" THEN 2000
                     ELSE s.ghost_speed_multiplier
             d == MoveDistance(GHOST_SPEEDS_CPS[ghost.id + 1], mult, delta_t)
             px == ghost.px + DC4[ghost.dir] * d
             py == ghost.py + DR4[ghost.dir] * d
             nxt == Step(ghost.pos, ghost.dir)
             center == CellCenterToPixel(nxt)
             dist_sq == (px - center[1]) * (px - center[1]) + (py - center[2]) * (py - center[2])
         IN IF dist_sq <= d * d
            THEN [ghost EXCEPT !.is_moving = FALSE, !.pos = nxt, !.px = center[1], !.py = center[2]]
            ELSE [ghost EXCEPT !.px = px, !.py = py]

\* the body of  for ghost in self.ghosts  (lines 520-545) for ghost i
GhostStep(m, map, s, i, delta_t, rnd) ==
    LET g1 == Release(m, s.ghosts[i], s.elapsed_time)
        deciding == ~g1.is_moving /\ g1.state # "waiting"
        dec == IF deciding THEN GhostDecide(m, map, s, g1, rnd[i])
               ELSE [raised |-> FALSE, ghost |-> g1]
        g3 == IF dec.raised THEN dec.ghost ELSE GhostMove(s, dec.ghost, delta_t)
    IN [s |-> [s EXCEPT !.ghosts[i] = g3],
        stop |-> IF dec.raised THEN "raised" ELSE "no",
        decision |-> IF deciding /\ ~dec.raised
                     THEN [made |-> TRUE, pos |-> g1.pos, dir |-> g1.dir,
                           planned_as |-> dec.ghost.state,
                           reversal_pending |-> g1.reversal_pending, chosen |-> dec.ghost.dir,
                           target |-> TargetTile(m, s, dec.ghost)]
                     ELSE [made |-> FALSE]]

\* the loop of lines 520-545 from ghost i on; decisions collects what each
\* ghost decided
RECURSIVE GhostLoop(_, _, _, _, _, _, _)
GhostLoop(m, map, s, i, delta_t, rnd, decisions) ==
    IF i > 3 THEN [s |-> s, stop |-> "no", decisions |-> decisions]
    ELSE LET r == GhostStep(m, map, s, i, delta_t, rnd)
             ds == [decisions EXCEPT ![i] = r.decision]
         IN IF r.stop # "no" THEN [s |-> r.s, stop |-> r.stop, decisions |-> ds]
            ELSE GhostLoop(m, map, r.s, i + 1, delta_t, rnd, ds)

\* the expiry turns every ghost that is not waiting into an active one
ExpireAll(s) ==
    [s EXCEPT !.ghosts = [i \in GhostIds |->
        IF s.ghosts[i].state # "waiting" THEN [s.ghosts[i] EXCEPT !.state = "active"]
        ELSE s.ghosts[i]]]

\* lines 551-552
ExpireFrightened(s) ==
    [s EXCEPT !.ghosts = [i \in GhostIds |->
        IF s.ghosts[i].state = "frightened" THEN [s.ghosts[i] EXCEPT !.state = "active"]
        ELSE s.ghosts[i]]]

\* lines 547-553
TimerStage(s, delta_t) ==
    IF s.frightened_timer > 0
    THEN LET s1 == [s EXCEPT !.frightened_timer = @ - delta_t]
         IN IF s1.frightened_timer <= 0
            THEN ExpireFrightened(StartGhostSiren([s1 EXCEPT !.ghost_eaten_bonus = BaseBonus]))
            ELSE s1
    ELSE StartGhostSiren(s)

Hit(s, ghost) ==
    (s.pacman_px - ghost.px) * (s.pacman_px - ghost.px)
      + (s.pacman_py - ghost.py) * (s.pacman_py - ghost.py)
      < (cell_visual_size_px \div 5) * (cell_visual_size_px \div 5)

\* a collision loop that tests every ghost, whatever its state
RECURSIVE CollisionLoopAll(_, _, _)
CollisionLoopAll(s, i, caught) ==
    IF i > 3 THEN [s |-> s, stop |-> "no", caught |-> caught]
    ELSE LET ghost == s.ghosts[i]
         IN IF Hit(s, ghost)
            THEN IF ghost.state = "frightened"
                 THEN CollisionLoopAll([s EXCEPT !.ghosts[i].state = "eaten",
                                                 !.pacman_score = @ + s.ghost_eaten_bonus,
                                                 !.pacman_eating_ghost = TRUE,
                                                 !.ghost_eaten_bonus = @ * 2], i + 1, caught + 1)
                 ELSE [s |-> [s EXCEPT !.pacman_is_dying = TRUE], stop |-> "dying",
                       caught |-> caught]
            ELSE CollisionLoopAll(s, i + 1, caught)

\* the loop of lines 555-564 from ghost i on; caught counts the ghosts eaten
RECURSIVE CollisionLoop(_, _, _)
CollisionLoop(s, i, caught) ==
    IF i > 3 THEN [s |-> s, stop |-> "no", caught |-> caught]
    ELSE LET ghost == s.ghosts[i]
         IN IF ghost.state \in {"active", "frightened"} /\ Hit(s, ghost)
            THEN IF ghost.state = "frightened"
                 THEN CollisionLoop([s EXCEPT !.ghosts[i].state = "eaten",
                                              !.pacman_score = @ + s.ghost_eaten_bonus,
                                              !.pacman_eating_ghost = TRUE,
                                              !.ghost_eaten_bonus = @ * 2], i + 1, caught + 1)
                 ELSE [s |-> [s EXCEPT !.pacman_is_dying = TRUE], stop |-> "dying",
                       caught |-> caught]
            ELSE CollisionLoop(s, i + 1, caught)

(***************************************************************************)
(* State.  arg/res hold the input and the result of the function a         *)
(* function-level specification applies.                                   *)
(***************************************************************************)
VARIABLES arg, res, maze, ghost_return_map, game, pending, probe

vars == <<arg, res, maze, ghost_return_map, game, pending, probe>>

\* the game variables of a function-level specification, and arg/res of the
\* game specification: never read, never changed
NoGame ==
    /\ maze = [op |-> "none"] /\ ghost_return_map = <<>> /\ game = [op |-> "none"]
    /\ pending = [op |-> "none"] /\ probe = [op |-> "none"]
NoCall == arg = [op |-> "none"] /\ res = [op |-> "none"]
gameVars == <<maze, ghost_return_map, game, pending, probe>>

(***************************************************************************)
(* Generated grids: every size up to MaxGridSize, the boundary walled or   *)
(* with entries false, and as interior walls any subset of the four sides  *)
(* of one cell.                                                            *)
(***************************************************************************)
SidesOf(cell) ==
    {<<"h", cell>>, <<"h", <<cell[1] + 1, cell[2]>>>>,
     <<"v", cell>>, <<"v", <<cell[1], cell[2] + 1>>>>}

InnerChoices(gs) ==
    UNION {SUBSET (SidesOf(cell) \cap InnerEntries(gs)) : cell \in Cells(gs)}

GridsOfSize(gs, opens) ==
    {MazeOf(gs, open, inner, <<gs - 1, 0>>, {}) :
        open \in opens, inner \in InnerChoices(gs)}

AllGrids == UNION {GridsOfSize(gs, OpenChoices(gs)) : gs \in 1..MaxGridSize}

\* boundary fully walled, or fully open
FieldGrids == UNION {GridsOfSize(gs, {{}, BoundaryEntries(gs)}) : gs \in 1..MaxGridSize}

\* goal cells tried: three corners and one cell outside the grid
GoalCandidates(gs) == {<<0, 0>>, <<gs - 1, gs - 1>>, <<gs - 1, 0>>, <<-1, -1>>}

GoalOrders(gs) == UNION {Orders(S) : S \in SubsetsUpTo(GoalCandidates(gs), MaxGoals)}

(***************************************************************************)
(* SpecField: _create_ghost_return_map applied to a grid and goal cells.   *)
(***************************************************************************)
InitField ==
    /\ \E m \in FieldGrids : \E o \in GoalOrders(m.grid_size) :
          arg = [op |-> "field",
                 m |-> [m EXCEPT !.goal_cells = {o[i] : i \in 1..Len(o)}],
                 order |-> o]
    /\ res = [op |-> "none"]
    /\ NoGame

DoCreateGhostReturnMap ==
    /\ arg.op = "field" /\ res.op = "none"
    /\ LET goals == GoalsWithFallback(arg.m.grid_size, arg.m.goal_cells)
           order == IF arg.m.goal_cells = {} THEN <<FallbackGoal(arg.m.grid_size)>> ELSE arg.order
       IN res' = [op |-> "field", goal_cells |-> goals,
                  ghost_return_map |-> CreateGhostReturnMap(arg.m, order)]
    /\ UNCHANGED <<arg, gameVars>>

NextField == DoCreateGhostReturnMap
SpecField == InitField /\ [][NextField]_vars

(***************************************************************************)
(* SpecWall: has_wall applied to every cell of a grid and its surrounding  *)
(* ring, in every direction.  Grids include matrices that lack their last  *)
(* row and column (an index there raises IndexError).                      *)
(***************************************************************************)
Truncated(m) ==
    [m EXCEPT !.h_walls = [e \in {x \in DOMAIN m.h_walls : x[1] < m.grid_size} |-> m.h_walls[e]],
              !.v_walls = [e \in {x \in DOMAIN m.v_walls : x[2] < m.grid_size} |-> m.v_walls[e]]]

WallGrids ==
    UNION {GridsOfSize(gs, OpenChoices(gs) \cup {BoundaryEntries(gs)}) : gs \in 1..MaxGridSize}
    \cup {Truncated(m) : m \in UNION {GridsOfSize(gs, {{}}) : gs \in 1..MaxGridSize}}

Ring(gs) == ((-1)..gs) \X ((-1)..gs)

InitWall ==
    /\ \E m \in WallGrids : arg = [op |-> "wall", m |-> m]
    /\ res = [op |-> "none"]
    /\ NoGame

DoHasWall ==
    /\ arg.op = "wall" /\ res.op = "none"
    /\ res' = [op |-> "wall",
               wall |-> [q \in Ring(arg.m.grid_size) \X Dirs |->
                           has_wall(arg.m, q[1][1], q[1][2], q[2])]]
    /\ UNCHANGED <<arg, gameVars>>

NextWall == DoHasWall
SpecWall == InitWall /\ [][NextWall]_vars

\* C3: has_wall(cell, direction) is true whenever the neighbour cell in that
\* direction lies outside the grid, whatever the wall matrices hold, and is
\* true for every cell that is itself out of range.
C3_FailClosed ==
    res.op = "wall" =>
        \A q \in DOMAIN res.wall :
            (~InGrid(arg.m.grid_size, q[1]) \/ ~InGrid(arg.m.grid_size, Step(q[1], q[2])))
                => res.wall[q]

(***************************************************************************)
(* Reference definitions for the distance field: adjacency over non-walled *)
(* edges between in-grid cells, and hop counts by whole layers.            *)
(***************************************************************************)
Neighbours(m, cell) ==
    {Step(cell, d) : d \in {x \in Dirs : ~has_wall(m, cell[1], cell[2], x)
                                          /\ InGrid(m.grid_size, Step(cell, x))}}

RECURSIVE LayerDist(_, _, _, _, _)
LayerDist(m, f, seen, frontier, k) ==
    IF frontier = {} THEN f
    ELSE LET g == [c \in DOMAIN f |-> IF c \in frontier THEN k ELSE f[c]]
             nxt == UNION {Neighbours(m, c) : c \in frontier} \ seen
         IN LayerDist(m, g, seen \cup nxt, nxt, k + 1)

TrueDist(m, seeds) ==
    LET s == {c \in seeds : InGrid(m.grid_size, c)}
    IN LayerDist(m, [c \in Cells(m.grid_size) |-> Inf], s, s, 0)

MinOf(S) == CHOOSE x \in S : \A y \in S : x <= y

\* C2: the home distance field equals the shortest hop count over non-walled
\* edges: seeds have 0, every other reached cell has its least neighbour value
\* plus 1, unwalled neighbours differ by at most 1, and a cell no seed reaches
\* keeps the unreached value Inf.
C2_FieldIsShortest ==
    (res.op = "field" /\ arg.m.goal_cells # {}
        /\ \A g \in arg.m.goal_cells : InGrid(arg.m.grid_size, g)) =>
        LET m == arg.m
            map == res.ghost_return_map
            ref == TrueDist(m, m.goal_cells)
        IN /\ \A c \in DOMAIN map : map[c] = ref[c]
           /\ \A c \in m.goal_cells : map[c] = 0
           /\ \A c \in DOMAIN map :
                 (c \notin m.goal_cells /\ ref[c] # Inf) =>
                     /\ Neighbours(m, c) # {}
                     /\ map[c] = MinOf({map[n] : n \in Neighbours(m, c)}) + 1
           /\ \A c \in DOMAIN map : \A n \in Neighbours(m, c) :
                 map[c] - map[n] \in {-1, 0, 1}
           /\ \A c \in DOMAIN map : ref[c] = Inf => map[c] = Inf

\* a field with a cell two or more hops from the seeds and an unreached cell
C2_Witness ==
    /\ res.op = "field" /\ arg.m.goal_cells # {}
    /\ \A g \in arg.m.goal_cells : InGrid(arg.m.grid_size, g)
    /\ Cardinality(arg.m.goal_cells) = 2
    /\ \E c \in DOMAIN res.ghost_return_map : res.ghost_return_map[c] = Inf
    /\ \E c \in DOMAIN res.ghost_return_map :
          res.ghost_return_map[c] >= 2 /\ res.ghost_return_map[c] # Inf

(***************************************************************************)
(* SpecWalk: one pursuing ghost of the Direct personality (id 0) walking   *)
(* cell to cell towards a player that stays on its cell: each step is the  *)
(* decision block of the game loop followed by the arrival at the next     *)
(* cell.  The walls around the ghost's first cell, its facing and the      *)
(* player's cell (in the north row or the west column) are drawn freely.   *)
(***************************************************************************)
\* the player's cells tried: the north row and the west column
TargetCells(gs) == {c \in Cells(gs) : c[1] = 0 \/ c[2] = 0}

NewGhost(i, pos, dir, state) ==
    [id |-> i, pos |-> pos, dir |-> dir, state |-> state,
     is_moving |-> FALSE, reversal_pending |-> FALSE]

InitWalk ==
    /\ \E gs \in 2..MaxGridSize : \E pos \in Cells(gs) :
       \E inner \in SUBSET (SidesOf(pos) \cap InnerEntries(gs)) :
       \E open \in {{}, BoundaryEntries(gs)} :
       \E m0 \in {MazeOf(gs, open, inner, pos, {FallbackGoal(gs)})} :
       \E pac \in TargetCells(gs), dir \in Dirs :
          /\ arg = [op |-> "walk",
                    m |-> [m0 EXCEPT !.start_cell = pac],
                    inner |-> inner, open |-> open,
                    pacman_pos |-> pac, pacman_dir |-> E4,
                    start_pos |-> pos, start_dir |-> dir]
          /\ res = [op |-> "walk", ghost |-> NewGhost(0, pos, dir, "active"),
                    path |-> <<>>, last |-> [op |-> "none"]]
    /\ NoGame

WalkStep ==
    /\ arg.op = "walk" /\ res.op = "walk"
    /\ Len(res.path) < MaxWalk
    /\ res.ghost.pos # arg.pacman_pos
    /\ LET s == [pacman_pos |-> arg.pacman_pos, pacman_dir |-> arg.pacman_dir,
                 ghosts |-> [i \in GhostIds |-> res.ghost]]
           map == CreateGhostReturnMap(arg.m, <<FallbackGoal(arg.m.grid_size)>>)
           r == GhostDecide(arg.m, map, s, res.ghost, N4)
           g == r.ghost
       IN res' = [op |-> "walk",
                  ghost |-> IF g.is_moving
                            THEN [g EXCEPT !.pos = Step(g.pos, g.dir), !.is_moving = FALSE]
                            ELSE g,
                  path |-> IF g.is_moving THEN Append(res.path, g.dir) ELSE res.path,
                  last |-> [op |-> "decide", pos |-> res.ghost.pos, dir |-> res.ghost.dir,
                            target |-> arg.pacman_pos, chosen |-> g.dir]]
    /\ UNCHANGED <<arg, gameVars>>

NextWalk == WalkStep
SpecWalk == InitWalk /\ [][NextWalk]_vars

\* the cell reached from cell by the directions of path
RECURSIVE Follow(_, _)
Follow(cell, path) == IF path = <<>> THEN cell ELSE Follow(Step(cell, Head(path)), Tail(path))

IsPrefix(p, q) == Len(p) <= Len(q) /\ \A i \in 1..Len(p) : p[i] = q[i]

C9_Scenario ==
    /\ arg.op = "walk" /\ arg.m.grid_size = 3 /\ arg.inner = {} /\ arg.open = {}
    /\ arg.start_pos = <<2, 2>> /\ arg.start_dir = N4 /\ arg.pacman_pos = <<0, 0>>

\* C9: on a 3x3 grid with boundary walls only, a pursuing ghost that starts at
\* (2,2) facing north and targets (0,0) takes the directions N, W, N, W, which
\* bring it to (0,0) in exactly 4 moves, and picks north wherever the north and
\* the west neighbour are equally close.
C9_PathNWNW ==
    C9_Scenario =>
        /\ IsPrefix(res.path, <<N4, W4, N4, W4>>)
        /\ res.ghost.pos = Follow(<<2, 2>>, res.path)
        /\ (res.ghost.pos = <<0, 0>>) <=> (Len(res.path) = 4)
        /\ (res.last.op = "decide"
              /\ DistSq(arg.pacman_pos, Step(res.last.pos, N4))
                   = DistSq(arg.pacman_pos, Step(res.last.pos, W4))
              /\ N4 \in ValidMoves(arg.m, res.last.pos))
             => res.last.chosen = N4

\* the scenario's walk has arrived at (0,0) after its fourth move
C9_Witness ==
    C9_Scenario /\ res.path = <<N4, W4, N4, W4>> /\ res.ghost.pos = <<0, 0>>

Rank(d) == CHOOSE i \in 1..4 : PlanOrder[i] = d

\* C10: for a pursuing ghost the planner returns, among the legal directions
\* left after excluding the reversal (kept only when it is the sole legal
\* move), one whose neighbour cell is closest to the target in squared
\* distance, and among equally close ones the first in the order N, W, S, E.
C10_ClosestFirstInOrder ==
    (res.op = "walk" /\ res.last.op = "decide") =>
        LET valid == ValidMoves(arg.m, res.last.pos)
            rev == Opposite(res.last.dir)
            cand == IF valid \ {rev} # {} THEN valid \ {rev} ELSE valid
            dist(d) == DistSq(res.last.target, Step(res.last.pos, d))
        IN cand # {} =>
             /\ res.last.chosen \in cand
             /\ \A d \in cand : dist(res.last.chosen) <= dist(d)
             /\ \A d \in cand : dist(d) = dist(res.last.chosen)
                                  => Rank(res.last.chosen) <= Rank(d)

\* a decision with the reverse legal and excluded, and two closest candidates
C10_Witness ==
    /\ res.op = "walk" /\ res.last.op = "decide"
    /\ LET valid == ValidMoves(arg.m, res.last.pos)
           rev == Opposite(res.last.dir)
           dist(d) == DistSq(res.last.target, Step(res.last.pos, d))
       IN /\ rev \in valid /\ Cardinality(valid) >= 3
          /\ dist(rev) < dist(res.last.chosen)
          /\ \E d \in valid \ {rev, res.last.chosen} : dist(d) = dist(res.last.chosen)

(***************************************************************************)
(* Spec: a game session.  game is the record of the PacmanGame fields the  *)
(* loop reads and writes; maze is maze_data after start_game, goal_cells   *)
(* holding the fallback of _create_ghost_return_map and goal_cell_list the *)
(* iteration order of that set; pending counts the callbacks Tk holds:     *)
(* start (_start_pacman_gameplay), loop (_pacman_game_loop), death         *)
(* (_pacman_death_animation), clear (the lambda that ends the eating       *)
(* freeze, due in clear_due ms) and close (on_close); probe observes the   *)
(* last tick: the ghosts around its marker step and its timer expiry, and  *)
(* each ghost's direction decision.                                        *)
(***************************************************************************)
\* the mazes played: every boundary entry a wall, every interior entry a wall
\* except the listed passages
Passages(gs, passages) == InnerEntries(gs) \ passages

\* a corridor (1,1)-(1,2)-(1,3) with the home cell (2,1) open below (1,1);
\* the other goal cells and the cells north of them are walled in
HomeMaze ==
    [md |-> MazeOf(4, {}, Passages(4, {<<"v", <<1, 2>>>>, <<"v", <<1, 3>>>>, <<"h", <<2, 1>>>>}),
                   <<1, 3>>, {<<2, 1>>, <<3, 0>>, <<3, 2>>, <<3, 3>>}),
     goal_cell_list |-> <<<<2, 1>>, <<3, 0>>, <<3, 2>>, <<3, 3>>>>, pygame |-> TRUE]

\* a 2x2 grid of walled-in cells without goal cells
TinyMaze ==
    [md |-> MazeOf(2, {}, InnerEntries(2), <<1, 0>>, {}),
     goal_cell_list |-> <<FallbackGoal(2)>>, pygame |-> TRUE]

\* a 3x3 grid of walled-in cells whose start cell is its only goal cell: no
\* cell that start_game could give a pellet
BareMaze ==
    [md |-> MazeOf(3, {}, InnerEntries(3), <<2, 0>>, {<<2, 0>>}),
     goal_cell_list |-> <<<<2, 0>>>>, pygame |-> TRUE]

\* a 3x3 grid with the corridor (1,0)-(1,1)-(1,2), played where pygame is
\* not installed (PYGAME_AVAILABLE is False)
SilentMaze ==
    [md |-> MazeOf(3, {}, Passages(3, {<<"v", <<1, 1>>>>, <<"v", <<1, 2>>>>}),
                   <<1, 0>>, {<<2, 2>>}),
     goal_cell_list |-> <<<<2, 2>>>>, pygame |-> FALSE]

GameInputs == {HomeMaze, TinyMaze, BareMaze, SilentMaze}

\* wall-clock time between two runs of the loop (an event loop that stalls),
\* and between two frames of the death animation
TickGaps == {ReleaseStep}
\* the arrow keys pressed: left and right
Keys == {E4, W4}
FrameGaps == {DEATH_ANIM_DURATION \div 2}

\* elapsed_time is compared with release times up to 3 * ReleaseStep only
ElapsedCap == 3 * ReleaseStep

IdlePending ==
    [start |-> 0, loop |-> 0, death |-> 0, clear |-> 0, clear_due |-> 0,
     anim_elapsed |-> 0, close |-> 0, closed |-> FALSE]

NoDecisions == [i \in GhostIds |-> [made |-> FALSE]]

IdleProbe ==
    [op |-> "idle", power |-> FALSE, marker |-> <<>>, expired |-> FALSE, expiry |-> <<>>,
     decisions |-> NoDecisions, stages |-> <<>>, collision |-> <<>>, trail |-> <<>>]

Init ==
    /\ NoCall
    /\ \E in \in GameInputs :
          LET goals == GoalsWithFallback(in.md.grid_size, in.md.goal_cells)
              m == [in.md EXCEPT !.goal_cells = goals]
          IN /\ maze = [grid_size |-> m.grid_size, h_walls |-> m.h_walls, v_walls |-> m.v_walls,
                        start_cell |-> m.start_cell, goal_cells |-> goals,
                        goal_cell_list |-> in.goal_cell_list]
             /\ ghost_return_map = CreateGhostReturnMap(in.md, in.goal_cell_list)
             /\ game = StartGame(in.md, in.goal_cell_list, in.pygame)
    /\ pending = [IdlePending EXCEPT !.start = 1]
    /\ probe = IdleProbe

\* wall-clock time passing for the pending clear callback
Advance(p, gap) ==
    IF p.clear > 0
    THEN [p EXCEPT !.clear_due = IF @ > gap THEN @ - gap ELSE 0]
    ELSE p

ClearDue == pending.clear > 0 /\ pending.clear_due = 0

\* time.time() - self.pacman_start_time after gap more milliseconds
Elapse(s, gap) ==
    IF s.pacman_start_time = 0 THEN s
    ELSE [s EXCEPT !.elapsed_time = IF @ + gap > ElapsedCap THEN ElapsedCap ELSE @ + gap]

\* what random.choice may return for ghost: a ghost that does not draw in
\* this tick gets N4
RndOptions(m, ghost) ==
    IF /\ ghost.state = "frightened" /\ ~ghost.is_moving
       /\ (~ghost.reversal_pending
             \/ has_wall(m, ghost.pos[1], ghost.pos[2], Opposite(ghost.dir)))
    THEN FrightenedOptions(m, ghost) ELSE {N4}

RndChoices(m, s) ==
    {[i \in GhostIds |-> <<a, b, c, d>>[i + 1]] :
        a \in RndOptions(m, s.ghosts[0]), b \in RndOptions(m, s.ghosts[1]),
        c \in RndOptions(m, s.ghosts[2]), d \in RndOptions(m, s.ghosts[3])}

Observe(ghosts) ==
    [i \in GhostIds |-> [state |-> ghosts[i].state,
                         reversal_pending |-> ghosts[i].reversal_pending]]

\* the power marker step of a tick that starts from s1 and whose player
\* stage gave p
MarkerProbe(s1, p) ==
    IF ~s1.pacman_is_moving /\ s1.pacman_pos \in s1.pacman_power_pellets
    THEN [before |-> Observe(s1.ghosts), after |-> Observe(p.marked.ghosts),
          bonus_before |-> s1.ghost_eaten_bonus,
          frightened_timer |-> p.marked.frightened_timer,
          ghost_eaten_bonus |-> p.marked.ghost_eaten_bonus]
    ELSE <<>>

States(s) == [i \in GhostIds |-> s.ghosts[i].state]

\* each ghost's cell, facing, moving status and deferred-reversal flag
Trail(s) ==
    [i \in GhostIds |-> [pos |-> s.ghosts[i].pos, dir |-> s.ghosts[i].dir,
                         is_moving |-> s.ghosts[i].is_moving,
                         reversal_pending |-> s.ghosts[i].reversal_pending]]

\* the collision loop run on the record t with the result c
CollisionProbe(t, c) ==
    [before |-> [i \in GhostIds |-> [state |-> t.ghosts[i].state, hit |-> Hit(t, t.ghosts[i])]],
     after |-> States(c.s), caught |-> c.caught,
     score_before |-> t.pacman_score, score_after |-> c.s.pacman_score,
     bonus_before |-> t.ghost_eaten_bonus, bonus_after |-> c.s.ghost_eaten_bonus,
     lives_before |-> t.pacman_lives, lives_after |-> c.s.pacman_lives,
     dying |-> c.s.pacman_is_dying]

\* a win that schedules the next run of the loop as well
EndTickReschedule(final, stop, caught, p0, pr) ==
    /\ game' = final
    /\ pending' = LET p1 == IF caught > 0
                            THEN [p0 EXCEPT !.clear = @ + caught, !.clear_due = EatingFreeze]
                            ELSE p0
                  IN CASE stop = "win" -> [p1 EXCEPT !.close = 1, !.loop = @ + 1]
                       [] stop = "raised" -> p1
                       [] stop = "dying" -> [p1 EXCEPT !.death = @ + 1, !.anim_elapsed = 0]
                       [] OTHER -> [p1 EXCEPT !.loop = @ + 1]
    /\ probe' = pr

\* the end of a run of the loop body: final is the record it leaves, stop
\* the way it ended ("win", "raised", "dying" or "no"), caught the number of
\* ghosts eaten, p0 the callbacks pending beside the loop's own
EndTick(final, stop, caught, p0, pr) ==
    /\ game' = final
    /\ pending' = LET p1 == IF caught > 0
                            THEN [p0 EXCEPT !.clear = @ + caught, !.clear_due = EatingFreeze]
                            ELSE p0
                  IN CASE stop = "win" -> [p1 EXCEPT !.close = 1]
                       [] stop = "raised" -> p1
                       [] stop = "dying" -> [p1 EXCEPT !.death = @ + 1, !.anim_elapsed = 0]
                       [] OTHER -> [p1 EXCEPT !.loop = @ + 1]
    /\ probe' = pr

\* _pacman_game_loop (lines 471-578) on the record s, run gap ms after the
\* previous run: the stages in order, ended early by a win, an IndexError or
\* a death
LoopRun(s, p0, gap, rnd) ==
    LET delta_t == IF gap > MaxDeltaT THEN MaxDeltaT ELSE gap
        st == Elapse(s, gap)
        tick(power, marker, expired, expiry, decisions, stages, collision, trail) ==
            [op |-> "tick", power |-> power, marker |-> marker, expired |-> expired,
             expiry |-> expiry, decisions |-> decisions, stages |-> stages,
             collision |-> collision, trail |-> trail]
    IN IF s.pacman_is_dying
       THEN game' = s /\ pending' = p0 /\ probe' = probe
       ELSE IF st.pacman_eating_ghost
       THEN game' = st /\ pending' = [p0 EXCEPT !.loop = @ + 1] /\ probe' = probe
       ELSE \E s1 \in {IF st.pacman_start_time = 0
                       THEN [st EXCEPT !.pacman_start_time = 1, !.elapsed_time = 0] ELSE st} :
            \E p \in {PacmanStage(maze, s1, delta_t)} :
            \E marker \in {MarkerProbe(s1, p)} :
               IF p.stop = "win"
               THEN EndTick(p.s, "win", 0, p0,
                            tick(marker # <<>>, marker, FALSE, <<>>, NoDecisions,
                                 <<States(s1), States(p.marked)>>, <<>>,
                                 <<Trail(s1), Trail(p.marked)>>))
               ELSE \E gl \in {GhostLoop(maze, ghost_return_map, p.s, 0, delta_t, rnd,
                                         NoDecisions)} :
                  IF gl.stop = "raised"
                  THEN EndTick(gl.s, "raised", 0, p0,
                               tick(marker # <<>>, marker, FALSE, <<>>, gl.decisions,
                                    <<States(s1), States(p.marked), States(gl.s)>>, <<>>,
                                    <<Trail(s1), Trail(p.marked), Trail(gl.s)>>))
                  ELSE \E t \in {TimerStage(gl.s, delta_t)} :
                       \E c \in {CollisionLoop(t, 0, 0)} :
                       \E expired \in {gl.s.frightened_timer > 0
                                         /\ gl.s.frightened_timer - delta_t <= 0} :
                          EndTick(c.s, c.stop, c.caught, p0,
                                  tick(marker # <<>>, marker, expired,
                                       IF expired
                                       THEN [before |-> Observe(gl.s.ghosts),
                                             after |-> Observe(t.ghosts)]
                                       ELSE <<>>,
                                       gl.decisions,
                                       <<States(s1), States(p.marked), States(gl.s),
                                         States(t), States(c.s)>>,
                                       CollisionProbe(t, c),
                                       <<Trail(s1), Trail(p.marked), Trail(gl.s),
                                         Trail(t), Trail(c.s)>>))

\* _start_pacman_gameplay (lines 465-469), 4000 ms after start_game or after
\* the reset of a lost life; its call of the loop sees a delta of 0
StartGameplay ==
    /\ pending.start > 0 /\ ~pending.closed /\ ~ClearDue
    /\ \E s1 \in {StartGhostSiren([game EXCEPT !.pacman_current_ghost_sound_index = -1])} :
       \E rnd \in RndChoices(maze, PacmanStage(maze, s1, 0).marked) :
          LoopRun(s1, [pending EXCEPT !.start = @ - 1], 0, rnd)
    /\ UNCHANGED <<arg, res, maze, ghost_return_map>>

\* the after(PACMAN_GAME_SPEED_MS) callback of the loop
GameLoop ==
    /\ pending.loop > 0 /\ ~pending.closed /\ ~ClearDue
    /\ \E gap \in TickGaps :
       \E rnd \in RndChoices(maze, PacmanStage(maze, game,
                                               IF gap > MaxDeltaT THEN MaxDeltaT ELSE gap).marked) :
          LoopRun(game, Advance([pending EXCEPT !.loop = @ - 1], gap), gap, rnd)
    /\ UNCHANGED <<arg, res, maze, ghost_return_map>>

\* lambda: setattr(self, 'pacman_eating_ghost', None)  (line 561)
ClearEating ==
    /\ ClearDue /\ ~pending.closed
    /\ game' = [game EXCEPT !.pacman_eating_ghost = FALSE]
    /\ pending' = [pending EXCEPT !.clear = @ - 1]
    /\ UNCHANGED <<arg, res, maze, ghost_return_map, probe>>

\* a reset that leaves every ghost where it is
ResetGhostInPlace(m, ghost) ==
    [ghost EXCEPT !.state = "waiting", !.is_moving = FALSE,
                  !.release_time = ghost.id * ReleaseStep]

\* the ghost dictionaries after the reset of lines 401-407
ResetGhost(m, ghost) ==
    LET pos == GhostStart(m.grid_size, m.goal_cell_list, ghost.id)
    IN [ghost EXCEPT !.pos = pos, !.px = CellCenterToPixel(pos)[1],
                     !.py = CellCenterToPixel(pos)[2], !.state = "waiting",
                     !.is_moving = FALSE, !.release_time = ghost.id * ReleaseStep]

\* the end of the animation takes two lives
LoseTwoLives(m, s) ==
    LET s1 == [s EXCEPT !.pacman_lives = @ - 2]
    IN IF s1.pacman_lives <= 0
       THEN [s1 EXCEPT !.pacman_game_over_state = "lose"]
       ELSE [s1 EXCEPT !.pacman_is_dying = FALSE]

\* a reset that puts the ghosts' speed multiplier back to 1.0 as well
LoseLifeSlowsGhosts(m, s) ==
    LET s1 == [s EXCEPT !.pacman_lives = @ - 1]
    IN IF s1.pacman_lives <= 0
       THEN [s1 EXCEPT !.pacman_game_over_state = "lose"]
       ELSE [s1 EXCEPT !.pacman_is_dying = FALSE, !.pacman_pos = m.start_cell,
                       !.pacman_px = CellCenterToPixel(m.start_cell)[1],
                       !.pacman_py = CellCenterToPixel(m.start_cell)[2],
                       !.pacman_dir = E4, !.pacman_next_dir = E4, !.pacman_is_moving = FALSE,
                       !.ghosts = [i \in GhostIds |-> ResetGhost(m, s.ghosts[i])],
                       !.ghost_speed_multiplier = 1000,
                       !.pacman_start_time = 0, !.elapsed_time = 0]

\* lines 380-413: the animation is over
LoseLife(m, s) ==
    LET s1 == [s EXCEPT !.pacman_lives = @ - 1]
    IN IF s1.pacman_lives <= 0
       THEN [s1 EXCEPT !.pacman_game_over_state = "lose"]
       ELSE [s1 EXCEPT !.pacman_is_dying = FALSE, !.pacman_pos = m.start_cell,
                       !.pacman_px = CellCenterToPixel(m.start_cell)[1],
                       !.pacman_py = CellCenterToPixel(m.start_cell)[2],
                       !.pacman_dir = E4, !.pacman_next_dir = E4, !.pacman_is_moving = FALSE,
                       !.ghosts = [i \in GhostIds |-> ResetGhost(m, s.ghosts[i])],
                       !.pacman_start_time = 0, !.elapsed_time = 0]

\* a reset of a lost life that empties the distance field as well
DeathAnimationClearsMap ==
    /\ pending.death > 0 /\ ~pending.closed /\ ~ClearDue
    /\ \E gap \in FrameGaps :
          LET p == Advance(pending, gap)
              elapsed == pending.anim_elapsed + gap
          IN IF elapsed < DEATH_ANIM_DURATION
             THEN /\ pending' = [p EXCEPT !.anim_elapsed = elapsed]
                  /\ UNCHANGED <<game, probe, ghost_return_map>>
             ELSE /\ game' = LoseLife(maze, game)
                  /\ pending' = IF game.pacman_lives - 1 <= 0
                                THEN [p EXCEPT !.death = @ - 1, !.anim_elapsed = 0, !.close = 1]
                                ELSE [p EXCEPT !.death = @ - 1, !.anim_elapsed = 0,
                                               !.start = @ + 1]
                  /\ probe' = [IdleProbe EXCEPT !.op = "reset"]
                  /\ ghost_return_map' = [c \in Cells(maze.grid_size) |-> Inf]
    /\ UNCHANGED <<arg, res, maze>>

\* a frame of _pacman_death_animation (lines 362-413), gap ms after the last
DeathAnimation ==
    /\ pending.death > 0 /\ ~pending.closed /\ ~ClearDue
    /\ \E gap \in FrameGaps :
          LET p == Advance(pending, gap)
              elapsed == pending.anim_elapsed + gap
          IN IF elapsed < DEATH_ANIM_DURATION
             THEN /\ pending' = [p EXCEPT !.anim_elapsed = elapsed]
                  /\ UNCHANGED <<game, probe>>
             ELSE /\ game' = LoseLife(maze, game)
                  /\ pending' = IF game.pacman_lives - 1 <= 0
                                THEN [p EXCEPT !.death = @ - 1, !.anim_elapsed = 0, !.close = 1]
                                ELSE [p EXCEPT !.death = @ - 1, !.anim_elapsed = 0,
                                               !.start = @ + 1]
                  /\ probe' = [IdleProbe EXCEPT !.op = "reset"]
    /\ UNCHANGED <<arg, res, maze, ghost_return_map>>

\* a key press that turns the player at once
KeyPressTurnsNow ==
    /\ ~pending.closed
    /\ ~game.pacman_is_dying /\ ~game.pacman_eating_ghost
    /\ \E direction \in Keys :
          /\ direction # game.pacman_next_dir
          /\ game' = [game EXCEPT !.pacman_next_dir = direction, !.pacman_dir = direction]
    /\ UNCHANGED <<arg, res, maze, ghost_return_map, pending, probe>>

\* _on_pacman_key_press (lines 358-360)
KeyPress ==
    /\ ~pending.closed
    /\ ~game.pacman_is_dying /\ ~game.pacman_eating_ghost
    /\ \E direction \in Keys :
          /\ direction # game.pacman_next_dir
          /\ game' = [game EXCEPT !.pacman_next_dir = direction]
    /\ UNCHANGED <<arg, res, maze, ghost_return_map, pending, probe>>

\* on_close (lines 257-264), scheduled 3000 ms after a win or a loss
OnClose ==
    /\ pending.close = 1 /\ ~pending.closed /\ ~ClearDue
    /\ pending' = [IdlePending EXCEPT !.closed = TRUE]
    /\ UNCHANGED <<arg, res, maze, ghost_return_map, game, probe>>

Next ==
    \/ StartGameplay
    \/ GameLoop
    \/ ClearEating
    \/ DeathAnimation
    \/ KeyPress
    \/ OnClose

Spec == Init /\ [][Next]_vars

(***************************************************************************)
(* Properties of the game session.                                        *)
(***************************************************************************)
Decided(i) == probe.decisions[i].made
Reversed(i) == probe.decisions[i].chosen = Opposite(probe.decisions[i].dir)
LegalAt(i) == ValidMoves(maze, probe.decisions[i].pos)

C4_AgentsInGrid ==
    /\ InGrid(maze.grid_size, game.pacman_pos)
    /\ \A i \in GhostIds : InGrid(maze.grid_size, game.ghosts[i].pos)

\* C5: the player, and every ghost that is not dormant, is moving only if
\* there is no wall from its cell in the direction it faces.
C5_NoMoveAcrossWall ==
    /\ game.pacman_is_moving =>
          ~has_wall(maze, game.pacman_pos[1], game.pacman_pos[2], game.pacman_dir)
    /\ \A i \in GhostIds :
          (game.ghosts[i].state # "waiting" /\ game.ghosts[i].is_moving) =>
              ~has_wall(maze, game.ghosts[i].pos[1], game.ghosts[i].pos[2], game.ghosts[i].dir)

\* C6: in a tick in which the evasion timer expires, exactly the ghosts that
\* are evading at that moment become pursuing; eaten and dormant ghosts (and
\* pursuing ones) keep their state.
C6_ExpiryRevertsEvading ==
    probe.expired =>
        \A i \in GhostIds :
            probe.expiry.after[i].state =
                IF probe.expiry.before[i].state = "frightened" THEN "active"
                ELSE probe.expiry.before[i].state

\* the timer expires with one ghost eaten and two or more evading
C6_Witness ==
    /\ probe.expired
    /\ \E i \in GhostIds : probe.expiry.before[i].state = "eaten"
    /\ Cardinality({i \in GhostIds : probe.expiry.before[i].state = "frightened"}) >= 2

\* C7: in the tick in which the player consumes a power marker, after the
\* marker step exactly the ghosts that were pursuing or evading are evading
\* with their deferred-reversal flag set, dormant and eaten ghosts keep state
\* and flag, the evasion timer is 8 s and the catch bonus is 200.
C7_PowerMarker ==
    probe.power =>
        /\ \A i \in GhostIds :
              IF probe.marker.before[i].state \in {"active", "frightened"}
              THEN probe.marker.after[i] = [state |-> "frightened", reversal_pending |-> TRUE]
              ELSE probe.marker.after[i] = probe.marker.before[i]
        /\ probe.marker.frightened_timer = FrightenedTime
        /\ probe.marker.ghost_eaten_bonus = BaseBonus

\* a power marker consumed with an eaten ghost, an evading ghost that has no
\* flag, and the bonus above its base value
C7_Witness ==
    /\ probe.power
    /\ \E i \in GhostIds : probe.marker.before[i].state = "eaten"
    /\ \E i \in GhostIds :
          probe.marker.before[i] = [state |-> "frightened", reversal_pending |-> FALSE]
    /\ probe.marker.bonus_before > BaseBonus

(***************************************************************************)
(* SpecReturn: one eaten ghost standing on a cell from which the home cell *)
(* is reachable, with or without a pending deferred reversal, returning    *)
(* home: each step is the decision block of the game loop followed, while  *)
(* the ghost is still eaten, by the arrival at the next cell.  The home    *)
(* cell, the ghost's cell and facing and the walls around its cell are     *)
(* drawn freely.                                                           *)
(***************************************************************************)
\* most cell-to-cell moves of a return followed
MaxReturn == 12

\* the home cells tried: three corners
HomeCandidates(gs) == {<<0, 0>>, <<gs - 1, gs - 1>>, <<gs - 1, 0>>}

InitReturn ==
    /\ \E gs \in 2..MaxGridSize : \E home \in HomeCandidates(gs), pos \in Cells(gs) :
       \E inner \in SUBSET (SidesOf(pos) \cap InnerEntries(gs)) :
       \E m \in {MazeOf(gs, {}, inner, <<gs - 1, 0>>, {home})} :
       \E dir \in Dirs, flag \in BOOLEAN :
             /\ CreateGhostReturnMap(m, <<home>>)[pos] # Inf
             /\ arg = [op |-> "return", m |-> m, start_pos |-> pos, start_dir |-> dir,
                       reversal_pending |-> flag]
             /\ res = [op |-> "return",
                       ghost |-> [NewGhost(0, pos, dir, "eaten") EXCEPT !.reversal_pending = flag],
                       path |-> <<>>]
    /\ NoGame

ReturnStep ==
    /\ arg.op = "return" /\ res.op = "return"
    /\ res.ghost.state = "eaten"
    /\ Len(res.path) < MaxReturn
    /\ LET s == [pacman_pos |-> arg.m.start_cell, pacman_dir |-> E4,
                 ghosts |-> [i \in GhostIds |-> res.ghost]]
           map == CreateGhostReturnMap(arg.m, <<CHOOSE g \in arg.m.goal_cells : TRUE>>)
           r == GhostDecide(arg.m, map, s, res.ghost, N4)
           g == r.ghost
           moved == g.state = "eaten" /\ g.is_moving
       IN res' = [op |-> "return",
                  ghost |-> IF moved
                            THEN [g EXCEPT !.pos = Step(g.pos, g.dir), !.is_moving = FALSE]
                            ELSE g,
                  path |-> IF moved THEN Append(res.path, g.dir) ELSE res.path]
    /\ UNCHANGED <<arg, gameVars>>

NextReturn == ReturnStep
SpecReturn == InitReturn /\ [][NextReturn]_vars

\* the longest shortest path between two cells joined by non-walled edges
Diameter(m) ==
    LET far(c) == LET f == TrueDist(m, {c})
                  IN CHOOSE k \in {f[x] : x \in DOMAIN f} \ {Inf} :
                         \A x \in DOMAIN f : f[x] # Inf => f[x] <= k
    IN CHOOSE k \in {far(c) : c \in Cells(m.grid_size)} :
           \A c \in Cells(m.grid_size) : far(c) <= k

\* C8: a ghost that is eaten on a cell from which a home cell is reachable
\* makes at most as many cell-to-cell moves as the grid's BFS diameter before
\* it reaches a home cell and leaves the eaten state, whatever flags (a pending
\* deferred reversal) it carried when it was eaten.
C8_ReturnWithinDiameter ==
    res.op = "return" => Len(res.path) <= Diameter(arg.m)

(***************************************************************************)
(* The seeds of the home distance field (SpecField).                       *)
(***************************************************************************)
\* C11: after _create_ghost_return_map at least one cell of the grid has
\* distance 0, for every grid size and every goal-cell input (empty, or with
\* cells outside the grid).
C11_FieldHasSeed ==
    res.op = "field" =>
        \E c \in Cells(arg.m.grid_size) : res.ghost_return_map[c] = 0

(***************************************************************************)
(* SpecCollide: the collision loop of a tick (lines 555-564) applied to a  *)
(* game record in which every ghost is in any of the four states and       *)
(* stands, on the player's row, just inside or just outside the collision  *)
(* threshold; the catch bonus has been doubled up to MaxDoublings times.   *)
(***************************************************************************)
\* most catches made before the collision test since the bonus was 200
MaxDoublings == 1

RECURSIVE Pow2(_)
Pow2(n) == IF n = 0 THEN 1 ELSE 2 * Pow2(n - 1)

GhostStates == {"waiting", "active", "frightened", "eaten"}

\* distances from the player in pixels: the threshold is a fifth of a cell
Offsets == {(cell_visual_size_px \div 5) - 1, cell_visual_size_px \div 5}

GhostPlacements ==
    {<<a, b, c, d>> : a \in GhostStates \X Offsets, b \in GhostStates \X Offsets,
                      c \in GhostStates \X Offsets, d \in GhostStates \X Offsets}

InitCollide ==
    /\ \E base \in {StartGame(HomeMaze.md, HomeMaze.goal_cell_list, TRUE)} :
       \E pl \in GhostPlacements, k \in 0..MaxDoublings :
          arg = [op |-> "collide",
                 s |-> [base EXCEPT
                     !.ghost_eaten_bonus = BaseBonus * Pow2(k),
                     !.pacman_score = 10,
                     !.frightened_timer =
                         IF k > 0 \/ \E i \in 1..4 : pl[i][1] = "frightened"
                         THEN FrightenedTime \div 2 ELSE 0,
                     !.ghosts = [i \in GhostIds |->
                         [base.ghosts[i] EXCEPT !.state = pl[i + 1][1],
                                                !.pos = base.pacman_pos,
                                                !.px = base.pacman_px - pl[i + 1][2],
                                                !.py = base.pacman_py]]]]
    /\ res = [op |-> "none"]
    /\ NoGame

DoCollide ==
    /\ arg.op = "collide" /\ res.op = "none"
    /\ res' = [op |-> "collide", c |-> CollisionProbe(arg.s, CollisionLoop(arg.s, 0, 0))]
    /\ UNCHANGED <<arg, gameVars>>

NextCollide == DoCollide
SpecCollide == InitCollide /\ [][NextCollide]_vars

\* the ghosts that are evading and within the threshold at the collision test
EvadingHit == {i \in GhostIds : res.c.before[i] = [state |-> "frightened", hit |-> TRUE]}

\* C12: every ghost that is evading and within the collision threshold of the
\* player at the collision test of a tick is eaten in that tick, and the score
\* rises by the bonus of each catch, the bonus doubling from catch to catch.
C12_EvadingHitEaten ==
    res.op = "collide" =>
        /\ \A i \in EvadingHit : res.c.after[i] = "eaten"
        /\ res.c.score_after - res.c.score_before
              = res.c.bonus_before * (Pow2(Cardinality(EvadingHit)) - 1)

\* the record s with its dormant and eaten ghosts moved away from the player
Apart(s) ==
    [s EXCEPT !.ghosts = [i \in GhostIds |->
        IF s.ghosts[i].state \in {"waiting", "eaten"}
        THEN [s.ghosts[i] EXCEPT !.px = @ - 10 * cell_visual_size_px]
        ELSE s.ghosts[i]]]

\* C14: the collision loop acts only on ghosts that are pursuing or evading at
\* the test: a dormant or eaten ghost keeps its state however close it is to
\* the player, and score, bonus, lives, the dying flag and every ghost's state
\* come out as they do with the dormant and eaten ghosts far from the player.
C14_OnlyPursuingOrEvading ==
    res.op = "collide" =>
        LET far == CollisionProbe(Apart(arg.s), CollisionLoop(Apart(arg.s), 0, 0))
        IN /\ \A i \in GhostIds :
                 res.c.before[i].state \in {"waiting", "eaten"} =>
                     res.c.after[i] = res.c.before[i].state
           /\ res.c.after = far.after /\ res.c.caught = far.caught
           /\ res.c.score_after = far.score_after /\ res.c.bonus_after = far.bonus_after
           /\ res.c.lives_after = res.c.lives_before /\ res.c.dying = far.dying
           /\ (\A i \in GhostIds : res.c.before[i].hit =>
                                       res.c.before[i].state \in {"waiting", "eaten"})
                 => /\ res.c.score_after = res.c.score_before /\ ~res.c.dying
                    /\ res.c.bonus_after = res.c.bonus_before

\* a dormant ghost and an eaten ghost are within the threshold, no other is
C14_Witness ==
    /\ res.op = "collide"
    /\ \E i \in GhostIds : res.c.before[i] = [state |-> "waiting", hit |-> TRUE]
    /\ \E i \in GhostIds : res.c.before[i] = [state |-> "eaten", hit |-> TRUE]
    /\ \A i \in GhostIds : res.c.before[i].hit => res.c.before[i].state \in {"waiting", "eaten"}
    /\ ~res.c.dying /\ res.c.score_after = res.c.score_before

(***************************************************************************)
(* Lives and the death sequence in the game session (Spec).                *)
(***************************************************************************)
\* the step ends a death sequence
DeathEnds == pending.death > 0 /\ pending'.death = pending.death - 1

\* the step leaves the game record as it is, the eating freeze apart
Frozen == [game' EXCEPT !.pacman_eating_ghost = game.pacman_eating_ghost] = game

LivesInvariant ==
    /\ game.pacman_lives \in 0..3
    /\ (game.pacman_game_over_state = "lose") <=> (game.pacman_lives = 0)
    /\ pending.death \in {0, 1}
    /\ (game.pacman_is_dying /\ game.pacman_game_over_state = "none")
          => (pending.death = 1 /\ pending.loop = 0 /\ pending.start = 0)

DeathStep ==
    /\ (~game.pacman_is_dying /\ game'.pacman_is_dying)
          => /\ pending'.death = 1
             /\ probe'.collision # <<>> /\ probe'.collision.dying
             /\ \E i \in GhostIds :
                   probe'.collision.before[i] = [state |-> "active", hit |-> TRUE]
    /\ (game'.pacman_lives # game.pacman_lives) => (game.pacman_is_dying /\ DeathEnds)
    /\ DeathEnds => (game'.pacman_lives = game.pacman_lives - 1)
    /\ (game.pacman_is_dying /\ ~DeathEnds) => Frozen

\* C13: a hit on a pursuing ghost starts exactly one death sequence; each
\* death sequence takes exactly one life; lives stay within 0..3; the session
\* is 'lose' exactly when lives are 0; and between the hit and the end of the
\* death sequence no tick is pending or run: the game record does not change.
C13_DeathSequence == []LivesInvariant /\ [][DeathStep]_vars

\* the third death sequence has ended the session
C13_Witness == game.pacman_game_over_state = "lose" /\ game.pacman_lives = 0

\* the game record start_game built for the maze played
SessionStart ==
    CHOOSE g \in {StartGame(in.md, in.goal_cell_list, in.pygame) :
                     in \in {x \in GameInputs : /\ x.md.grid_size = maze.grid_size
                                                /\ x.pygame = game.PYGAME_AVAILABLE}} : TRUE

\* the state right after the reset of a lost life that leaves lives
Resumed == probe.op = "reset" /\ game.pacman_game_over_state = "none"

\* the record and the callbacks of a resumed play; st is the record at
\* session start
AtStart(st) ==
        /\ game.pacman_pos = maze.start_cell /\ ~game.pacman_is_moving
        /\ game.pacman_px = st.pacman_px /\ game.pacman_py = st.pacman_py
        /\ game.pacman_dir = E4 /\ game.pacman_next_dir = E4
        /\ ~game.pacman_is_dying
        /\ \A i \in GhostIds :
              /\ game.ghosts[i].state = "waiting" /\ ~game.ghosts[i].is_moving
              /\ game.ghosts[i].pos = st.ghosts[i].pos
              /\ game.ghosts[i].px = st.ghosts[i].px
              /\ game.ghosts[i].py = st.ghosts[i].py
              /\ game.ghosts[i].release_time = i * ReleaseStep
        /\ game.pacman_start_time = 0 /\ game.elapsed_time = 0
        /\ pending.start = 1 /\ pending.loop = 0 /\ pending.death = 0

\* C15: a death sequence that leaves a life ends with the player on the start
\* cell, stationary, facing and queued direction east, and every ghost
\* dormant, stationary, on the cell it had at session start, its release
\* delay i * 3 s again, counted from the resumed play, which is scheduled.
C15_ResetToStart ==
    [][(DeathEnds /\ game'.pacman_game_over_state = "none")
           => \E st \in {SessionStart} : AtStart(st)']_vars

\* play resumes for the last life, with a ghost that had turned before
C15_Witness ==
    /\ Resumed /\ game.pacman_lives = 1
    /\ \E i \in GhostIds : game.ghosts[i].dir # N4

\* C16: after the reset of a lost life all timers are reset: every ghost's
\* release delay is its initial one and the evasion countdown is cleared.
C16_TimersReset ==
    Resumed =>
        /\ \A i \in GhostIds : game.ghosts[i].release_time = i * ReleaseStep
        /\ game.pacman_start_time = 0
        /\ game.frightened_timer = 0

(***************************************************************************)
(* The end of the session (Spec).                                          *)
(***************************************************************************)
NoMarkers == game.pacman_pellets = {} /\ game.pacman_power_pellets = {}

\* the markers a step removes
Removed ==
    (game.pacman_pellets \ game'.pacman_pellets)
      \cup (game.pacman_power_pellets \ game'.pacman_power_pellets)

WinStep ==
    /\ game'.pacman_pellets \subseteq game.pacman_pellets
    /\ game'.pacman_power_pellets \subseteq game.pacman_power_pellets
    /\ Removed \subseteq {game.pacman_pos}
    /\ Removed # {} => ~game.pacman_is_moving
    /\ (game.pacman_game_over_state # "win" /\ game'.pacman_game_over_state = "win")
          => (~game.pacman_is_moving /\ NoMarkers')

\* C17: the session is 'win' only with both marker sets empty, and once a
\* tick has left both sets empty the session is 'win' (the tick that takes
\* the last marker, with the player at a decision point, declares it);
\* markers are removed only from the player's own cell, at a decision point.
C17_WinWhenNoMarkers ==
    /\ [](game.pacman_game_over_state = "win" => NoMarkers)
    /\ []((NoMarkers /\ probe.op # "idle") => game.pacman_game_over_state = "win")
    /\ [][WinStep]_vars

\* the corridor maze is won: its pellet and both power pellets are eaten
C17_Witness ==
    /\ game.pacman_game_over_state = "win" /\ maze.grid_size = 4
    /\ game.pacman_initial_pellet_count = 3 /\ game.pacman_score >= 110

Over == game.pacman_game_over_state \in {"win", "lose"}

NothingScheduled == pending.loop = 0 /\ pending.start = 0 /\ pending.death = 0

TerminalStep ==
    Over => /\ game'.pacman_game_over_state = game.pacman_game_over_state
            /\ game'.ghosts = game.ghosts
            /\ game'.pacman_pos = game.pacman_pos /\ game'.pacman_dir = game.pacman_dir
            /\ game'.pacman_px = game.pacman_px /\ game'.pacman_py = game.pacman_py
            /\ game'.pacman_is_moving = game.pacman_is_moving
            /\ game'.pacman_score = game.pacman_score
            /\ game'.pacman_lives = game.pacman_lives
            /\ probe' = probe

\* C18: once the session is 'win' or 'lose' the state keeps its value, no run
\* of the loop, of the start of play or of the death animation is scheduled,
\* and no ghost, and no cell, position, facing, score or lives of the player
\* changes.
C18_Terminal == [](Over => NothingScheduled) /\ [][TerminalStep]_vars

\* the window has been closed after a win
C18_Witness == game.pacman_game_over_state = "win" /\ pending.closed

(***************************************************************************)
(* The changes of a ghost's state (Spec).  probe.stages holds the ghosts'  *)
(* states at the start of the last tick and after its marker step, its     *)
(* ghost loop, its timer stage and its collision loop.                     *)
(***************************************************************************)
\* the change from a to b of ghost i in stage k of the last tick
StageChange(k, i, a, b) ==
    \/ a = b
    \/ k = 1 /\ a = "active" /\ b = "frightened" /\ probe.power
    \/ k = 2 /\ a = "waiting" /\ b = "active"
             /\ game.elapsed_time >= game.ghosts[i].release_time
    \/ k = 2 /\ a = "eaten" /\ b = "active"
             /\ probe.decisions[i].made /\ probe.decisions[i].pos \in maze.goal_cells
    \/ k = 3 /\ a = "frightened" /\ b = "active" /\ probe.expired
    \/ k = 4 /\ a = "frightened" /\ b = "eaten"
             /\ probe.collision.before[i] = [state |-> "frightened", hit |-> TRUE]

StagesAllowed ==
    probe.op = "tick" =>
        \A k \in 1..(Len(probe.stages) - 1) : \A i \in GhostIds :
            StageChange(k, i, probe.stages[k][i], probe.stages[k + 1][i])

StateStep ==
    \/ States(game') = States(game)
    \/ /\ probe'.op = "tick"
       /\ probe'.stages[1] = States(game)
       /\ probe'.stages[Len(probe'.stages)] = States(game')
    \/ /\ DeathEnds /\ \A i \in GhostIds : game'.ghosts[i].state = "waiting"

\* C19: every change of a ghost's state is dormant->pursuing (release delay
\* reached), pursuing->evading (power marker), evading->pursuing (timer
\* expiry), evading->eaten (collision while evading), eaten->pursuing (at a
\* home cell) or any->dormant (reset of a lost life).
C19_StateChanges == []StagesAllowed /\ [][StateStep]_vars

\* in one tick a ghost goes from pursuing to evading and on to eaten
C19_Witness ==
    /\ probe.op = "tick" /\ Len(probe.stages) = 5
    /\ \E i \in GhostIds :
          /\ probe.stages[1][i] = "active" /\ probe.stages[2][i] = "frightened"
          /\ probe.stages[5][i] = "eaten"

(***************************************************************************)
(* The eaten ghost on a home cell (SpecReturn).                            *)
(***************************************************************************)
\* C20: an eaten ghost that decides on a home cell becomes pursuing in that
\* decision, whatever its other fields (a set deferred-reversal flag
\* included).
C20_HomeMakesPursuing ==
    [][(res.op = "return" /\ res.ghost.state = "eaten"
          /\ res.ghost.pos \in arg.m.goal_cells)
        => res'.ghost.state = "active"]_vars

(***************************************************************************)
(* SpecEaten: the returning-home branch of _get_ghost_next_direction       *)
(* (lines 419-426) asked once for an eaten ghost that stands on a cell     *)
(* which is not a home cell and from which the home cell is reachable.     *)
(* The home cell, the ghost's cell and facing and the four sides of its    *)
(* cell (interior walls, and at most one boundary entry false) are drawn   *)
(* freely.                                                                 *)
(***************************************************************************)
InitEaten ==
    /\ \E gs \in 2..MaxGridSize : \E home \in HomeCandidates(gs), pos \in Cells(gs) :
       \E inner \in SUBSET (SidesOf(pos) \cap InnerEntries(gs)) :
       \E open \in {{}} \cup {{e} : e \in SidesOf(pos) \cap BoundaryEntries(gs)} :
       \E m \in {MazeOf(gs, open, inner, <<gs - 1, 0>>, {home})} :
       \E map \in {CreateGhostReturnMap(m, <<home>>)} :
       \E dir \in Dirs :
             /\ pos # home /\ map[pos] # Inf
             /\ arg = [op |-> "eaten", m |-> m, map |-> map, open |-> open,
                       ghost |-> NewGhost(0, pos, dir, "eaten")]
    /\ res = [op |-> "none"]
    /\ NoGame

DoEatenDirection ==
    /\ arg.op = "eaten" /\ res.op = "none"
    /\ \E r \in {GetGhostNextDirection(arg.m, arg.map,
                     [pacman_pos |-> arg.m.start_cell, pacman_dir |-> E4,
                      ghosts |-> [i \in GhostIds |-> arg.ghost]], arg.ghost, N4)} :
          res' = [op |-> "eaten", raised |-> r.raised, dir |-> r.dir]
    /\ UNCHANGED <<arg, gameVars>>

NextEaten == DoEatenDirection
SpecEaten == InitEaten /\ [][NextEaten]_vars

\* the directions that are not walled and lead to a cell of the grid whose
\* home distance is strictly smaller than that of the ghost's cell
Descending ==
    {d \in Dirs :
        /\ ~has_wall(arg.m, arg.ghost.pos[1], arg.ghost.pos[2], d)
        /\ InGrid(arg.m.grid_size, Step(arg.ghost.pos, d))
        /\ arg.map[Step(arg.ghost.pos, d)] < arg.map[arg.ghost.pos]}

\* C21: for an eaten ghost on a cell that is not a home cell and from which a
\* home cell is reachable, the planner returns a direction that is not walled
\* and whose neighbour cell has a strictly smaller home distance than the
\* ghost's cell; such a direction exists, and the one returned is the first of
\* them in the order N, W, S, E.
C21_EatenDescends ==
    res.op = "eaten" =>
        /\ ~res.raised
        /\ Descending # {}
        /\ res.dir \in Descending
        /\ \A d \in Descending : Rank(res.dir) <= Rank(d)

\* the same with every boundary entry a wall
C21_EatenDescendsWalled ==
    (res.op = "eaten" /\ arg.open = {}) =>
        /\ ~res.raised
        /\ Descending # {}
        /\ res.dir \in Descending
        /\ \A d \in Descending : Rank(res.dir) <= Rank(d)

(***************************************************************************)
(* The deferred-reversal flag in the game session.  probe.trail holds each *)
(* ghost's cell, facing, moving status and flag at the start of the last   *)
(* tick, after its marker step, after its ghost loop, after its timer      *)
(* stage (where _start_ghost_siren runs) and after its collision loop.     *)
(***************************************************************************)
Flag(k, i) == probe.trail[k][i].reversal_pending

\* stage k left ghost i's cell, facing and moving status as they were
SameBody(k, i) ==
    /\ probe.trail[k + 1][i].pos = probe.trail[k][i].pos
    /\ probe.trail[k + 1][i].dir = probe.trail[k][i].dir
    /\ probe.trail[k + 1][i].is_moving = probe.trail[k][i].is_moving

\* the direction _get_ghost_next_direction gives for the decision of ghost i
PlannerGives(i) ==
    LET dec == probe.decisions[i]
        g == [pos |-> dec.pos, dir |-> dec.dir]
    IN CASE dec.planned_as = "eaten" ->
              dec.chosen = EatenDirection(maze, ghost_return_map, g).dir
         [] dec.planned_as = "frightened" -> dec.chosen \in FrightenedOptions(maze, g)
         [] OTHER -> dec.chosen = ChaseDirection(maze, g, dec.target)

\* ghost i through the stages of the last tick
FlagStages(i) ==
    /\ Len(probe.trail) >= 2 => ((Flag(1, i) => Flag(2, i)) /\ SameBody(1, i))
    /\ Len(probe.trail) >= 3 =>
          IF Decided(i)
          THEN /\ ~probe.trail[2][i].is_moving
               /\ probe.decisions[i].reversal_pending = Flag(2, i)
               /\ ~Flag(3, i)
               /\ Flag(2, i) =>
                     IF Opposite(probe.decisions[i].dir) \in LegalAt(i)
                     THEN Reversed(i) ELSE PlannerGives(i)
          ELSE /\ Flag(3, i) = Flag(2, i)
               /\ probe.trail[3][i].dir = probe.trail[2][i].dir
               /\ probe.trail[2][i].is_moving =>
                     \/ /\ probe.trail[3][i].pos = probe.trail[2][i].pos
                        /\ probe.trail[3][i].is_moving
                     \/ /\ probe.trail[3][i].pos
                             = Step(probe.trail[2][i].pos, probe.trail[2][i].dir)
                        /\ ~probe.trail[3][i].is_moving
    /\ Len(probe.trail) >= 4 => ((Flag(3, i) => Flag(4, i)) /\ SameBody(3, i))
    /\ Len(probe.trail) >= 5 => probe.trail[5][i] = probe.trail[4][i]

FlagInTick == probe.op = "tick" => \A i \in GhostIds : FlagStages(i)

\* a ghost's flag changes only in a run of the loop
FlagStep ==
    \A i \in GhostIds :
        (game'.ghosts[i].reversal_pending # game.ghosts[i].reversal_pending) =>
            /\ probe'.op = "tick"
            /\ probe'.trail[1] = Trail(game)
            /\ probe'.trail[Len(probe'.trail)] = Trail(game')

\* C22: setting a ghost's deferred-reversal flag (at the marker step or by the
\* siren) leaves its facing, cell and moving status as they are, and a ghost
\* that is mid-move goes on along its facing; the flag stays set until the
\* ghost's next direction decision, which clears it: there the ghost takes the
\* reverse of its facing if that is not walled and the planner's direction
\* otherwise.
C22_DeferredReversal == []FlagInTick /\ [][FlagStep]_vars

\* a flagged ghost decides where the reverse is walled
C22_WitnessWalled ==
    /\ probe.op = "tick"
    /\ \E i \in GhostIds :
          /\ Decided(i) /\ probe.decisions[i].reversal_pending
          /\ Opposite(probe.decisions[i].dir) \notin LegalAt(i)

\* a flag set by the marker step on a ghost that is mid-move
C22_WitnessSet ==
    /\ probe.op = "tick" /\ Len(probe.trail) = 5
    /\ \E i \in GhostIds :
          /\ ~Flag(1, i) /\ Flag(2, i) /\ probe.trail[1][i].is_moving /\ Flag(5, i)

\* a flag set by the siren
C22_WitnessSiren ==
    /\ probe.op = "tick" /\ Len(probe.trail) = 5
    /\ \E i \in GhostIds : ~Flag(3, i) /\ Flag(4, i)

\* a flagged ghost reverses at its decision
C22_WitnessReverse ==
    /\ probe.op = "tick"
    /\ \E i \in GhostIds :
          /\ Decided(i) /\ probe.decisions[i].reversal_pending /\ Reversed(i)

(***************************************************************************)
(* SpecTarget: the target of a pursuing ghost (lines 434-450) computed     *)
(* once for each personality on a grid of MaxSpan + 1 rows and columns,    *)
(* the player on one of three cells facing any direction, the ghost on the *)
(* west column or the diagonal, the Direct ghost on one of three cells.    *)
(***************************************************************************)
\* largest row and column index of the grid the targets are computed on
MaxSpan == 9

PlayerCells == {<<0, 0>>, <<1, 2>>, <<MaxSpan, MaxSpan>>}
GhostCells == {<<k, 0>> : k \in 0..MaxSpan} \cup {<<k, k>> : k \in 0..MaxSpan}
DirectCells == {<<0, 0>>, <<2, 1>>, <<MaxSpan, 0>>}

InitTarget ==
    /\ \E pac \in PlayerCells, pac_dir \in Dirs, id \in GhostIds :
       \E pos \in GhostCells, direct \in DirectCells :
          arg = [op |-> "target", grid_size |-> MaxSpan + 1,
                 pacman_pos |-> pac, pacman_dir |-> pac_dir,
                 ghosts |-> [i \in GhostIds |->
                     NewGhost(i, IF i = 0 /\ id # 0 THEN direct
                                 ELSE IF i = id THEN pos ELSE <<0, 0>>, N4, "active")],
                 id |-> id]
    /\ res = [op |-> "none"]
    /\ NoGame

DoTargetTile ==
    /\ arg.op = "target" /\ res.op = "none"
    /\ res' = [op |-> "target",
               target_tile |-> TargetTile([grid_size |-> arg.grid_size],
                                          [pacman_pos |-> arg.pacman_pos,
                                           pacman_dir |-> arg.pacman_dir,
                                           ghosts |-> arg.ghosts],
                                          arg.ghosts[arg.id])]
    /\ UNCHANGED <<arg, gameVars>>

NextTarget == DoTargetTile
SpecTarget == InitTarget /\ [][NextTarget]_vars

\* the cell k steps ahead of the player along its facing
Ahead(k) ==
    CASE arg.pacman_dir = N4 -> <<arg.pacman_pos[1] - k, arg.pacman_pos[2]>>
      [] arg.pacman_dir = E4 -> <<arg.pacman_pos[1], arg.pacman_pos[2] + k>>
      [] arg.pacman_dir = S4 -> <<arg.pacman_pos[1] + k, arg.pacman_pos[2]>>
      [] OTHER -> <<arg.pacman_pos[1], arg.pacman_pos[2] - k>>

\* C23: the target of a pursuing ghost is: Direct (id 0) the player's cell;
\* Ambush (id 1) the cell 4 ahead of the player along its facing, 4 columns
\* further west when the player faces north; Flank (id 2) twice the cell 2
\* ahead of the player minus the Direct ghost's cell; Patrol (id 3) the
\* player's cell if the squared cell distance from the ghost to the player is
\* greater than 64 and the corner cell (grid_size - 1, 0) otherwise.
C23_Targets ==
    res.op = "target" =>
        res.target_tile =
            CASE arg.id = 0 -> arg.pacman_pos
              [] arg.id = 1 ->
                   IF arg.pacman_dir = N4 THEN <<Ahead(4)[1], Ahead(4)[2] - 4>> ELSE Ahead(4)
              [] arg.id = 2 ->
                   <<2 * Ahead(2)[1] - arg.ghosts[0].pos[1],
                     2 * Ahead(2)[2] - arg.ghosts[0].pos[2]>>
              [] OTHER ->
                   IF DistSq(arg.ghosts[3].pos, arg.pacman_pos) > 64
                   THEN arg.pacman_pos ELSE <<arg.grid_size - 1, 0>>

\* the Patrol ghost at a squared distance of exactly 64 from the player
C23_Witness ==
    /\ res.op = "target" /\ arg.id = 3
    /\ DistSq(arg.ghosts[3].pos, arg.pacman_pos) = 64
    /\ res.target_tile = <<arg.grid_size - 1, 0>>
    /\ res.target_tile # arg.pacman_pos

(***************************************************************************)
(* The three timers of the session: game.elapsed_time is                   *)
(* time.time() - pacman_start_time as the last run of the loop computed it *)
(* (line 519), game.frightened_timer the evasion countdown (line 548) and  *)
(* pending.anim_elapsed  time.time() - start_time  of the death animation  *)
(* (line 366).                                                             *)
(***************************************************************************)
\* what a step adds to the time counted towards the release of the ghosts
ReleaseProgress ==
    IF game'.elapsed_time > game.elapsed_time
    THEN game'.elapsed_time - game.elapsed_time ELSE 0

\* what a step takes from a running evasion countdown
EvasionProgress ==
    IF game.frightened_timer > 0 /\ game'.frightened_timer < game.frightened_timer
    THEN game.frightened_timer - game'.frightened_timer ELSE 0

\* what a step adds to the time counted towards the end of the animation
AnimationProgress ==
    IF pending'.anim_elapsed > pending.anim_elapsed
    THEN pending'.anim_elapsed - pending.anim_elapsed ELSE 0

\* C24: the release delay, the evasion countdown and the death-animation
\* duration advance only by the clamped delta of a tick: no step, however
\* long the event loop stalled before it, advances any of the three by more
\* than the clamp (0.1 s).
C24_TimersByClampedDelta ==
    [][/\ ReleaseProgress <= MaxDeltaT
       /\ EvasionProgress <= MaxDeltaT
       /\ AnimationProgress <= MaxDeltaT]_vars

\* the evasion countdown alone
C24_EvasionByClampedDelta == [][EvasionProgress <= MaxDeltaT]_vars
\* the release delay alone
C24_ReleaseByClampedDelta == [][ReleaseProgress <= MaxDeltaT]_vars
\* the death animation alone
C24_AnimationByClampedDelta == [][AnimationProgress <= MaxDeltaT]_vars

(***************************************************************************)
(* Travel in one step: the change of an agent's continuous position, and   *)
(* the distance lines 511 and 539 give for the clamped delta.              *)
(***************************************************************************)
Abs(x) == IF x < 0 THEN -x ELSE x

PlayerTravel ==
    Abs(game'.pacman_px - game.pacman_px) + Abs(game'.pacman_py - game.pacman_py)

GhostTravel(i) ==
    Abs(game'.ghosts[i].px - game.ghosts[i].px) + Abs(game'.ghosts[i].py - game.ghosts[i].py)

\* the player's move_distance of a tick with the largest delta; the speed
\* modifier is that of the markers left after the tick's marker step
PlayerReach ==
    MoveDistance(PACMAN_BASE_SPEED_CPS, PacmanSpeedModifier(game'), MaxDeltaT)

\* ghost i's ghost_move_distance of a tick with the largest delta, in the
\* state the ghost has when the ghost loop moves it
GhostReach(i) ==
    LET state == probe'.stages[3][i]
        mult == IF state = "frightened" THEN 800
                ELSE IF state = "eaten" THEN 2000
                ELSE game.ghost_speed_multiplier
    IN MoveDistance(GHOST_SPEEDS_CPS[i + 1], mult, MaxDeltaT)

PlayerBounded == PlayerTravel <= PlayerReach

GhostsBounded ==
    \A i \in GhostIds :
        \/ GhostTravel(i) = 0
        \/ /\ probe'.op = "tick" /\ Len(probe'.stages) >= 3
           /\ GhostTravel(i) <= GhostReach(i)

\* C25: whatever the wall-clock gap before a run of the loop, the run moves
\* the continuous position of the player and of every ghost by at most the
\* travel of 0.1 s at the agent's effective speed, and takes at most 0.1 s
\* from the evasion countdown.
C25_BoundedTravel ==
    [][~DeathEnds => (PlayerBounded /\ GhostsBounded /\ EvasionProgress <= MaxDeltaT)]_vars

\* the same for the player and the countdown only
C25_PlayerBounded ==
    [][~DeathEnds => (PlayerBounded /\ EvasionProgress <= MaxDeltaT)]_vars

(***************************************************************************)
(* Symmetry of has_wall (SpecWall).                                        *)
(***************************************************************************)
\* h_walls has grid_size + 1 rows of grid_size entries, v_walls grid_size
\* rows of grid_size + 1 entries
WellSized(m) ==
    /\ DOMAIN m.h_walls = HEntries(m.grid_size)
    /\ DOMAIN m.v_walls = VEntries(m.grid_size)

\* the cells of the grid that have a neighbour in the grid in direction d
Adjacent(gs) ==
    {q \in Cells(gs) \X Dirs : InGrid(gs, Step(q[1], q[2]))}

\* C26: for well-sized wall matrices of any content and every two cells A and
\* B of the grid with B the neighbour of A in direction d, has_wall(A, d)
\* equals has_wall(B, opposite(d)).
C26_WallSymmetric ==
    (res.op = "wall" /\ WellSized(arg.m)) =>
        \A q \in Adjacent(arg.m.grid_size) :
            res.wall[q] = res.wall[<<Step(q[1], q[2]), Opposite(q[2])>>]

\* a grid with a walled and a non-walled pair of neighbours, north-south and
\* east-west
C26_Witness ==
    /\ res.op = "wall" /\ WellSized(arg.m)
    /\ \E q \in Adjacent(arg.m.grid_size) : q[2] = S4 /\ res.wall[q]
    /\ \E q \in Adjacent(arg.m.grid_size) : q[2] = S4 /\ ~res.wall[q]
    /\ \E q \in Adjacent(arg.m.grid_size) : q[2] = E4 /\ res.wall[q]
    /\ \E q \in Adjacent(arg.m.grid_size) : q[2] = E4 /\ ~res.wall[q]

(***************************************************************************)
(* The continuous position of an agent against its discrete cell.          *)
(***************************************************************************)
\* the distance of the agent's continuous position from the centre of its cell
Offset(a) ==
    Abs(a.px - CellCenterToPixel(a.pos)[1]) + Abs(a.py - CellCenterToPixel(a.pos)[2])

\* the displacement from the centre of the cell points along the facing
AlongFacing(a) ==
    /\ a.px - CellCenterToPixel(a.pos)[1] = Offset(a) * DC4[a.dir]
    /\ a.py - CellCenterToPixel(a.pos)[2] = Offset(a) * DR4[a.dir]

\* the agents of the session as [pos, dir, px, py]
Agents ==
    {[pos |-> game.pacman_pos, dir |-> game.pacman_dir,
      px |-> game.pacman_px, py |-> game.pacman_py]}
    \cup {[pos |-> game.ghosts[i].pos, dir |-> game.ghosts[i].dir,
           px |-> game.ghosts[i].px, py |-> game.ghosts[i].py] : i \in GhostIds}

\* C27: in every state the displacement of each agent's continuous position
\* from the centre of its discrete cell lies along its facing and is strictly
\* less than half a cell width.
C27_PositionConsistent ==
    \A a \in Agents : AlongFacing(a) /\ 2 * Offset(a) < cell_visual_size_px

\* the displacement lies along the facing and is less than a whole cell width
C27_WithinOneCell ==
    \A a \in Agents : AlongFacing(a) /\ Offset(a) < cell_visual_size_px

(***************************************************************************)
(* A session without markers (pacman_initial_pellet_count = 0).            *)
(***************************************************************************)
\* the ramp computations give 'no ramp': the siren tier is 0, the player's
\* speed modifier 1.0 and the ghosts' multiplier 1.0
NoRamp ==
    /\ TargetSoundIndex(game) = 0
    /\ PacmanSpeedModifier(game) = 1000
    /\ game.ghost_speed_multiplier = 1000

\* C28: in a session that starts with no markers at all the consumed fraction
\* is 0 (no division by zero), the speed scaling of player and ghosts stays
\* at 'no ramp', and the session is not won merely because both marker sets
\* were empty from the start.
C28_ZeroMarkers ==
    game.pacman_initial_pellet_count = 0 =>
        (NoRamp /\ game.pacman_game_over_state # "win")

\* the ramp part alone
C28_ZeroMarkersNoRamp ==
    game.pacman_initial_pellet_count = 0 => NoRamp

(***************************************************************************)
(* The player's queued direction.                                          *)
(***************************************************************************)
\* the player stands on the centre of its cell
Centred ==
    /\ ~game.pacman_is_moving
    /\ game.pacman_px = CellCenterToPixel(game.pacman_pos)[1]
    /\ game.pacman_py = CellCenterToPixel(game.pacman_pos)[2]

\* the queued direction differs from the facing and is not walled
QueuedOpen ==
    /\ game.pacman_dir # game.pacman_next_dir
    /\ ~has_wall(maze, game.pacman_pos[1], game.pacman_pos[2], game.pacman_next_dir)

\* a step that changes the queued direction changes nothing else and is
\* taken neither in the death sequence nor in the eating freeze (the reset
\* of a lost life apart)
KeyStep ==
    (game'.pacman_next_dir # game.pacman_next_dir /\ ~DeathEnds) =>
        /\ ~game.pacman_is_dying /\ ~game.pacman_eating_ghost
        /\ game' = [game EXCEPT !.pacman_next_dir = game'.pacman_next_dir]
        /\ pending' = pending /\ probe' = probe

\* a step that changes the facing finds the player on the centre of its cell
\* with the new facing queued and not walled (the reset apart), and a step in
\* which the player sets off from a cell centre has applied the queued
\* direction if it was not walled and kept the facing otherwise
TurnStep ==
    /\ (game'.pacman_dir # game.pacman_dir /\ ~DeathEnds) =>
          (Centred /\ QueuedOpen /\ game'.pacman_dir = game.pacman_next_dir)
    /\ (Centred /\ game'.pacman_is_moving) =>
          game'.pacman_dir = IF QueuedOpen THEN game.pacman_next_dir ELSE game.pacman_dir

\* C29: a key press changes only the queued direction, never the player's
\* facing, cell, position or moving flag, and changes nothing during the
\* death sequence or the eating freeze; the facing changes only in a tick
\* that finds the player stationary on a cell centre, to the queued direction
\* if that is not walled, and is kept otherwise.
C29_QueuedDirection == [][KeyStep /\ TurnStep]_vars

\* the player has set off in a direction queued while it faced another one:
\* it is moving west, away from the start cell it faced east on
C29_Witness ==
    /\ game.pacman_is_moving /\ game.pacman_dir = W4
    /\ game.pacman_pos = maze.start_cell
    /\ game.pacman_lives = 2

(***************************************************************************)
(* SpecTurn: the turn of lines 502-504 applied once to a player standing   *)
(* on any cell of a generated grid with any facing and queued direction.   *)
(***************************************************************************)
InitTurn ==
    /\ \E m \in AllGrids : \E pos \in Cells(m.grid_size), dir \in Dirs, next_dir \in Dirs :
          arg = [op |-> "turn", m |-> m,
                 s |-> [pacman_pos |-> pos, pacman_dir |-> dir, pacman_next_dir |-> next_dir,
                        pacman_is_moving |-> FALSE]]
    /\ res = [op |-> "none"]
    /\ NoGame

DoPacmanTurn ==
    /\ arg.op = "turn" /\ res.op = "none"
    /\ res' = [op |-> "turn", s |-> PacmanTurn(arg.m, arg.s)]
    /\ UNCHANGED <<arg, gameVars>>

NextTurn == DoPacmanTurn
SpecTurn == InitTurn /\ [][NextTurn]_vars

\* the turn applies the queued direction exactly if it is not walled, keeps
\* the facing otherwise, leaves the queued direction and the cell alone, and
\* sets the player moving exactly if the resulting facing is not walled
TurnOnlyIfOpen ==
    res.op = "turn" =>
        LET b == arg.s
            a == res.s
            open(d) == ~has_wall(arg.m, b.pacman_pos[1], b.pacman_pos[2], d)
        IN /\ a.pacman_dir = IF open(b.pacman_next_dir) THEN b.pacman_next_dir ELSE b.pacman_dir
           /\ a.pacman_next_dir = b.pacman_next_dir /\ a.pacman_pos = b.pacman_pos
           /\ a.pacman_is_moving = open(a.pacman_dir)

(***************************************************************************)
(* The aggression ramp: ghost_speed_multiplier, the factor of line 538 on  *)
(* the speed of a pursuing ghost, against the consumed-marker tier         *)
(* min(int(percent_eaten * 5), 4) of _start_ghost_siren.                   *)
(***************************************************************************)
\* play goes on, no evasion is running, a tick has run since the start or
\* the last reset, and the tier is above the tier 0 of the session's start
TierAdvanced ==
    /\ game.pacman_game_over_state = "none" /\ ~game.pacman_is_dying
    /\ game.frightened_timer <= 0
    /\ probe.op = "tick"
    /\ TargetSoundIndex(game) > 0

\* the multiplier is above the 1.0 it had before the first advance
Ramped == TierAdvanced => game.ghost_speed_multiplier > 1000

NeverSlower == game'.ghost_speed_multiplier >= game.ghost_speed_multiplier

\* C30: the multiplier on the speed of pursuing ghosts never decreases in a
\* session, resets of a lost life included, and once the consumed-marker
\* tier has advanced it is larger than it was before the advance, with or
\* without pygame.
C30_RampMonotone == []Ramped /\ [][NeverSlower]_vars

\* the multiplier never decreases
C30_NeverSlower == [][NeverSlower]_vars

\* with pygame the multiplier is raised once the tier has advanced
C30_RampedWithSound == game.PYGAME_AVAILABLE => Ramped

(***************************************************************************)
(* The grid and the precomputed fields in the game session (Spec).  maze   *)
(* holds grid_size, h_walls, v_walls, start_cell and goal_cells as         *)
(* __init__ and _create_ghost_return_map left them, ghost_return_map the   *)
(* field of _create_ghost_return_map; start_game is called once.           *)
(***************************************************************************)
GridKept == maze' = maze /\ ghost_return_map' = ghost_return_map

\* C31: no run of the loop, key press, frame of the death animation, reset
\* or close changes the wall matrices, the grid size, the start cell, the
\* goal cells or the home distance field: they keep the values they had when
\* start_game returned.
C31_GridImmutable == [][GridKept]_vars

\* the last life is played after two deaths and resets, with pellets eaten
\* and the left key pressed
C31_Witness ==
    /\ probe.op = "tick" /\ game.pacman_lives = 1 /\ game.pacman_score > 0
    /\ game.pacman_next_dir = W4

(***************************************************************************)
(* The order of the stages of one run of the loop in the game session      *)
(* (Spec): probe.decisions holds what each ghost decided in the ghost loop *)
(* (lines 520-545), probe.expired whether the countdown of lines 547-552   *)
(* reached zero in the same run, probe.collision the collision loop.       *)
(***************************************************************************)
DecisionsSeeExpiry ==
    (probe.op = "tick" /\ probe.expired)
       => \A i \in GhostIds :
             probe.decisions[i].made => probe.decisions[i].planned_as # "frightened"

CollisionSeesExpiry ==
    (probe.op = "tick" /\ probe.expired /\ probe.collision # <<>>)
       => \A i \in GhostIds : probe.collision.before[i].state # "frightened"

\* C32: in a run of the loop the evasion countdown expires, with the state
\* changes it causes, before the ghosts' direction decisions, so that no
\* ghost decides as an evading ghost in the run in which the countdown
\* expires.
C32_StageOrder == DecisionsSeeExpiry

\* the collision loop of a run does see the states the expiry of that run
\* left
C32_CollisionAfterExpiry == CollisionSeesExpiry

(***************************************************************************)
(* Arrival at the next cell in the game session (Spec): lines 512-517 for  *)
(* the player, lines 541-545 for a ghost.                                  *)
(***************************************************************************)
\* the point <<x, y>> has reached or passed centre in the direction dir
Passed(x, y, dir, centre) ==
    \/ (dir = E4 /\ x >= centre[1]) \/ (dir = W4 /\ x <= centre[1])
    \/ (dir = S4 /\ y >= centre[2]) \/ (dir = N4 /\ y <= centre[2])

\* the step changes the player's cell only to the next cell in its facing,
\* with the player on that cell's centre and stopped, and only if the advance
\* of the run has reached or passed the centre
PlayerArrival ==
    (game'.pacman_pos # game.pacman_pos)
       => /\ game'.pacman_pos = Step(game.pacman_pos, game'.pacman_dir)
          /\ <<game'.pacman_px, game'.pacman_py>> = CellCenterToPixel(game'.pacman_pos)
          /\ ~game'.pacman_is_moving
          /\ Passed(game.pacman_px + DC4[game'.pacman_dir] * PlayerReach,
                    game.pacman_py + DR4[game'.pacman_dir] * PlayerReach,
                    game'.pacman_dir, CellCenterToPixel(game'.pacman_pos))

GhostSnapped(i) ==
    LET g == game.ghosts[i]
        h == game'.ghosts[i]
    IN (h.pos # g.pos)
          => /\ h.pos = Step(g.pos, h.dir)
             /\ <<h.px, h.py>> = CellCenterToPixel(h.pos)
             /\ ~h.is_moving

GhostArrival(i) ==
    LET g == game.ghosts[i]
        h == game'.ghosts[i]
    IN (h.pos # g.pos)
          => /\ GhostSnapped(i)
             /\ Len(probe'.stages) >= 3
             /\ Passed(g.px + DC4[h.dir] * GhostReach(i), g.py + DR4[h.dir] * GhostReach(i),
                       h.dir, CellCenterToPixel(h.pos))

\* C33: a run of the loop changes the cell of the player or of a ghost only
\* to the next cell in the agent's facing, puts the agent on that cell's
\* centre and stops it, and does so only if the agent's advance in that run
\* has reached or passed the centre along the axis of motion.
C33_DirectionalArrival ==
    [][~DeathEnds => (PlayerArrival /\ \A i \in GhostIds : GhostArrival(i))]_vars

\* the same with the comparison for the player only
C33_PlayerDirectional ==
    [][~DeathEnds => (PlayerArrival /\ \A i \in GhostIds : GhostSnapped(i))]_vars

(***************************************************************************)
(* What a ghost keeps through the reset of a lost life (lines 395-407) in  *)
(* the game session (Spec).                                                *)
(***************************************************************************)
NoStaleCommand ==
    \A i \in GhostIds :
        /\ ~game.ghosts[i].reversal_pending
        /\ game.ghosts[i].dir = SessionStart.ghosts[i].dir

\* C34: right after the reset of a lost life every ghost's deferred-reversal
\* flag is clear and its facing is the one start_game gave it, so that no
\* ghost starts the new life with a reversal ordered in the previous one.
C34_NoStaleCommand == Resumed => NoStaleCommand

(***************************************************************************)
(* SpecWindow: the ghost-catch bonus from one reset to the next.  The      *)
(* steps of the loop that read or write ghost_eaten_bonus or make a ghost  *)
(* evading, eaten, pursuing or dormant are applied, in any order, to the   *)
(* record of the corridor maze: the power pellet step (lines 491-495), the *)
(* collision loop (555-564) with any set of ghosts within the threshold,   *)
(* the run in which the countdown expires (547-552), an eaten ghost's      *)
(* decision on its home cell (531), a release (521-522) and the reset of a *)
(* lost life (380-407).  Between the steps the agents stand where          *)
(* start_game put them; res keeps the catches since the last reset of the  *)
(* bonus.                                                                  *)
(***************************************************************************)
HomeGrid ==
    [grid_size |-> HomeMaze.md.grid_size, h_walls |-> HomeMaze.md.h_walls,
     v_walls |-> HomeMaze.md.v_walls, start_cell |-> HomeMaze.md.start_cell,
     goal_cells |-> HomeMaze.md.goal_cells, goal_cell_list |-> HomeMaze.goal_cell_list]

NoCatches == [op |-> "window", caught |-> {}, catches |-> 0, awarded |-> {}]

\* the record s with the score, the eating freeze and the agents' places and
\* facings as in the record base
Rest(base, s) ==
    [s EXCEPT !.pacman_score = base.pacman_score, !.pacman_eating_ghost = FALSE,
              !.pacman_pos = base.pacman_pos, !.pacman_px = base.pacman_px,
              !.pacman_py = base.pacman_py, !.pacman_dir = base.pacman_dir,
              !.pacman_next_dir = base.pacman_next_dir, !.pacman_is_moving = FALSE,
              !.pacman_start_time = 0, !.elapsed_time = 0,
              !.ghosts = [i \in GhostIds |->
                             [base.ghosts[i] EXCEPT !.state = s.ghosts[i].state]]]

\* the record s with the ghosts of near within the collision threshold of the
\* player and the others just outside
Placed(s, near) ==
    [s EXCEPT !.ghosts = [i \in GhostIds |->
        [s.ghosts[i] EXCEPT !.pos = s.pacman_pos,
                            !.px = s.pacman_px - (IF i \in near
                                                  THEN (cell_visual_size_px \div 5) - 1
                                                  ELSE cell_visual_size_px \div 5),
                            !.py = s.pacman_py]]]

InitWindow ==
    /\ \E base \in {StartGame(HomeMaze.md, HomeMaze.goal_cell_list, TRUE)} :
          arg = [op |-> "window", m |-> HomeGrid,
                 map |-> CreateGhostReturnMap(HomeMaze.md, HomeMaze.goal_cell_list),
                 base |-> base, s |-> base]
    /\ res = NoCatches
    /\ NoGame

Playing == arg.op = "window" /\ arg.s.pacman_game_over_state = "none" /\ ~arg.s.pacman_is_dying

WindowPower ==
    /\ Playing
    /\ \E cell \in arg.s.pacman_power_pellets :
          arg' = [arg EXCEPT !.s = Rest(arg.base, EatPowerPellet([arg.s EXCEPT !.pacman_pos = cell]))]
    /\ res' = NoCatches
    /\ UNCHANGED gameVars

WindowCollide ==
    /\ Playing
    /\ \E near \in SUBSET GhostIds :
       \E t \in {Placed(arg.s, near)} :
       \E c \in {CollisionLoop(t, 0, 0)} :
          /\ arg' = [arg EXCEPT !.s = Rest(arg.base, c.s)]
          /\ res' = [op |-> "window",
                     caught |-> res.caught \cup {i \in GhostIds : /\ t.ghosts[i].state = "frightened"
                                                                 /\ c.s.ghosts[i].state = "eaten"},
                     catches |-> res.catches + c.caught,
                     awarded |-> {t.ghost_eaten_bonus * Pow2(j) : j \in 0..(c.caught - 1)}]
    /\ UNCHANGED gameVars

WindowExpire ==
    /\ Playing /\ arg.s.frightened_timer > 0
    /\ arg' = [arg EXCEPT !.s = Rest(arg.base,
                   TimerStage([arg.s EXCEPT !.frightened_timer = MaxDeltaT], MaxDeltaT))]
    /\ res' = NoCatches
    /\ UNCHANGED gameVars

WindowHome ==
    /\ Playing
    /\ \E i \in GhostIds :
          /\ arg.s.ghosts[i].state = "eaten"
          /\ arg' = [arg EXCEPT !.s = Rest(arg.base,
                         [arg.s EXCEPT !.ghosts[i] =
                             GhostDecide(arg.m, arg.map, arg.s, arg.s.ghosts[i], N4).ghost])]
    /\ res' = [res EXCEPT !.awarded = {}]
    /\ UNCHANGED gameVars

WindowRelease ==
    /\ Playing
    /\ \E i \in GhostIds :
          /\ arg.s.ghosts[i].state = "waiting"
          /\ arg' = [arg EXCEPT !.s.ghosts[i] =
                         Release(arg.m, arg.s.ghosts[i], arg.s.ghosts[i].release_time)]
    /\ res' = [res EXCEPT !.awarded = {}]
    /\ UNCHANGED gameVars

WindowReset ==
    /\ arg.op = "window" /\ arg.s.pacman_is_dying /\ arg.s.pacman_game_over_state = "none"
    /\ arg' = [arg EXCEPT !.s = Rest(arg.base, LoseLife(arg.m, arg.s))]
    /\ res' = [res EXCEPT !.awarded = {}]
    /\ UNCHANGED gameVars

NextWindow ==
    \/ WindowPower
    \/ WindowCollide
    \/ WindowExpire
    \/ WindowHome
    \/ WindowRelease
    \/ WindowReset

SpecWindow == InitWindow /\ [][NextWindow]_vars

BonusAwarded == {BaseBonus * Pow2(k) : k \in 0..3}
BonusStored == {BaseBonus * Pow2(k) : k \in 0..4}

\* C35: since the bonus was last set to 200, by a power pellet or by the
\* expiry of the countdown, no ghost has been caught twice and at most four
\* catches were made; every catch awards 200, 400, 800 or 1600, and the
\* stored bonus is 200, 400, 800, 1600 or 3200.
C35_CatchWindow ==
    arg.op = "window" =>
        /\ res.catches = Cardinality(res.caught) /\ res.catches <= 4
        /\ res.awarded \subseteq BonusAwarded
        /\ arg.s.ghost_eaten_bonus \in BonusStored
        /\ arg.s.ghost_eaten_bonus = BaseBonus * Pow2(res.catches)

\* the fourth catch of a window, made while a ghost caught before is pursuing
\* again
C35_Witness ==
    /\ arg.op = "window" /\ res.catches = 4 /\ res.awarded = {8 * BaseBonus}
    /\ arg.s.ghost_eaten_bonus = 16 * BaseBonus
    /\ \E i \in GhostIds : arg.s.ghosts[i].state = "active"

\* the same for the stored bonus in the game session
C35_SessionBonus == game.ghost_eaten_bonus \in BonusStored

(***************************************************************************)
(* The callbacks that drive the game: pending.loop counts the scheduled    *)
(* runs of _pacman_game_loop, pending.death those of                       *)
(* _pacman_death_animation, pending.start those of _start_pacman_gameplay. *)
(* SpecOpen is the game session played on a maze whose boundary has one    *)
(* entry false: the south wall of (3,1), below the passage that leads from *)
(* the corridor (2,1)-(2,2)-(2,3) to the home cell (3,2).                  *)
(***************************************************************************)
OpenMaze ==
    [md |-> MazeOf(4, {<<"h", <<4, 1>>>>},
                   Passages(4, {<<"v", <<2, 2>>>>, <<"v", <<2, 3>>>>,
                                <<"h", <<3, 1>>>>, <<"v", <<3, 2>>>>}),
                   <<2, 3>>, {<<3, 2>>, <<0, 0>>, <<0, 2>>, <<0, 3>>}),
     goal_cell_list |-> <<<<3, 2>>, <<0, 0>>, <<0, 2>>, <<0, 3>>>>, pygame |-> TRUE]

InitOpen ==
    /\ NoCall
    /\ \E in \in {OpenMaze} :
          /\ maze = [grid_size |-> in.md.grid_size, h_walls |-> in.md.h_walls,
                     v_walls |-> in.md.v_walls, start_cell |-> in.md.start_cell,
                     goal_cells |-> GoalsWithFallback(in.md.grid_size, in.md.goal_cells),
                     goal_cell_list |-> in.goal_cell_list]
          /\ ghost_return_map = CreateGhostReturnMap(in.md, in.goal_cell_list)
          /\ game = StartGame(in.md, in.goal_cell_list, in.pygame)
    /\ pending = [IdlePending EXCEPT !.start = 1]
    /\ probe = IdleProbe

SpecOpen == InitOpen /\ [][Next]_vars

Chains == pending.loop + pending.death + pending.start

\* C36: until the window is closed exactly one of these holds: a run of the
\* loop is scheduled, a frame of the death animation is scheduled, the
\* delayed start of play is scheduled, or the session is over; and never more
\* than one callback of the three kinds is pending.
C36_OneChain ==
    /\ Chains <= 1
    /\ ~pending.closed => Chains + (IF Over THEN 1 ELSE 0) = 1

\* at most one of the three is pending, none once the session is over, and
\* while the player is dying it is the death animation
C36_AtMostOneChain ==
    /\ Chains <= 1
    /\ Over => Chains = 0
    /\ (game.pacman_is_dying /\ ~Over /\ ~pending.closed) => pending.death = 1

(***************************************************************************)
(* SpecStart: start_game (lines 204-255) applied to a generated grid, or   *)
(* to one of the 4x4 mazes played, with goal cells from GoalOrders, those  *)
(* of the maze, or none.  res.goal_cells is self.goal_cells when           *)
(* start_game returns, the fallback of line 273 included.                  *)
(***************************************************************************)
StartInputs ==
    {[m |-> [g EXCEPT !.goal_cells = {o[i] : i \in 1..Len(o)}], order |-> o] :
        g \in FieldGrids, o \in UNION {GoalOrders(gs) : gs \in 1..MaxGridSize}}
      \cup {[m |-> x.md, order |-> x.goal_cell_list] : x \in {HomeMaze, OpenMaze}}
      \cup {[m |-> [x.md EXCEPT !.goal_cells = {}], order |-> <<>>] : x \in {HomeMaze, OpenMaze}}

InitStart ==
    /\ \E in \in StartInputs :
          /\ \A i \in 1..Len(in.order) : in.order[i] \in GoalCandidates(in.m.grid_size)
                                            \cup in.m.goal_cells
          /\ arg = [op |-> "start", m |-> in.m, order |-> in.order]
    /\ res = [op |-> "none"]
    /\ NoGame

DoStartGame ==
    /\ arg.op = "start" /\ res.op = "none"
    /\ LET goals == GoalsWithFallback(arg.m.grid_size, arg.m.goal_cells)
           order == IF arg.m.goal_cells = {} THEN <<FallbackGoal(arg.m.grid_size)>> ELSE arg.order
       IN res' = [op |-> "start", goal_cells |-> goals,
                  game |-> StartGame(arg.m, order, TRUE)]
    /\ UNCHANGED <<arg, gameVars>>

NextStart == DoStartGame
SpecStart == InitStart /\ [][NextStart]_vars

\* the cells the player can reach from the start cell over non-walled edges
Reach(m) == {c \in Cells(m.grid_size) : TrueDist(m, {m.start_cell})[c] < Inf}

MarkersOf(g) == g.pacman_pellets \cup g.pacman_power_pellets

\* C37: when start_game returns, the pellets and the power pellets are
\* disjoint, none of them lies on a goal cell, and each lies on a cell the
\* player can reach from the start cell over non-walled edges.
C37_MarkersPlaced ==
    res.op = "start" =>
        /\ res.game.pacman_pellets \cap res.game.pacman_power_pellets = {}
        /\ MarkersOf(res.game) \cap res.goal_cells = {}
        /\ MarkersOf(res.game) \subseteq Reach(arg.m)

\* the same with the goal cells maze_data names
C37_MarkersOffNamedGoals ==
    res.op = "start" =>
        /\ res.game.pacman_pellets \cap res.game.pacman_power_pellets = {}
        /\ MarkersOf(res.game) \cap arg.m.goal_cells = {}
        /\ MarkersOf(res.game) \subseteq Reach(arg.m)
        /\ res.game.pacman_initial_pellet_count = Cardinality(MarkersOf(res.game))

\* in the game session the markers stay disjoint, off the goal cells and
\* reachable, and no step adds one
C37_SessionMarkers ==
    /\ [](/\ game.pacman_pellets \cap game.pacman_power_pellets = {}
          /\ MarkersOf(game) \cap maze.goal_cells = {}
          /\ MarkersOf(game) \subseteq Reach(maze))
    /\ [][MarkersOf(game') \subseteq MarkersOf(game)]_vars

(***************************************************************************)
(* The score and the markers through a death in the game session (Spec).   *)
(***************************************************************************)
\* the step leaves the score, the markers, their initial count and the
\* ghosts' speed multiplier as they are
TallyKept ==
    /\ game'.pacman_score = game.pacman_score
    /\ game'.pacman_pellets = game.pacman_pellets
    /\ game'.pacman_power_pellets = game.pacman_power_pellets
    /\ game'.pacman_initial_pellet_count = game.pacman_initial_pellet_count
    /\ game'.ghost_speed_multiplier = game.ghost_speed_multiplier

ScoreStep ==
    /\ game'.pacman_score >= game.pacman_score
    /\ game.pacman_is_dying => TallyKept

\* C38: no step lowers the score, and from the fatal collision to the end of
\* the reset of the lost life no step changes the score, the pellets and
\* power pellets left, the initial pellet count or the ghosts' speed
\* multiplier.
C38_ScoreKept == [][ScoreStep]_vars

\* play resumes with points scored, markers left and the ghosts speeded up
C38_Witness ==
    /\ Resumed /\ game.pacman_lives = 2 /\ game.pacman_score >= 60
    /\ game.pacman_power_pellets # {} /\ game.ghost_speed_multiplier > 1000

(***************************************************************************)
(* The solver of the 3D viewer (src/maze_3d_viewer.py:140-261).  A cell is *)
(* <<y, x>>, row first, as in the wall matrices h_walls_data[y][x] (the    *)
(* wall north of the cell) and v_walls_data[y][x] (the wall west of it);   *)
(* the code's path entries (x, y) are kept as <<y, x>>.  Directions are    *)
(* 0 N, 1 E, 2 S, 3 W; a route entry is a record [a, n]: 'left' and        *)
(* 'right' with n = 0, ('forward', n) with its count.                      *)
(***************************************************************************)
\* the guards of lines 145-148 and 176-186: the neighbour of cell in the
\* direction d is inside the grid and no wall lies between
SolverOpenNoWalls(m, cell, d) ==
    CASE d = N4 -> cell[1] > 0
      [] d = S4 -> cell[1] < m.grid_size - 1
      [] d = W4 -> cell[2] > 0
      [] d = E4 -> cell[2] < m.grid_size - 1

SolverOpen(m, cell, d) ==
    CASE d = N4 -> cell[1] > 0 /\ ~m.h_walls[cell]
      [] d = S4 -> cell[1] < m.grid_size - 1 /\ ~m.h_walls[<<cell[1] + 1, cell[2]>>]
      [] d = W4 -> cell[2] > 0 /\ ~m.v_walls[cell]
      [] d = E4 -> cell[2] < m.grid_size - 1 /\ ~m.v_walls[<<cell[1], cell[2] + 1>>]

\* the four tests of lines 145-148 for the queue entry (cell, dist), from
\* position i of the order north, south, west, east on
FloodOrder == <<N4, S4, W4, E4>>

RECURSIVE SolveVisit(_, _, _, _, _, _)
SolveVisit(m, distances, q, cell, dist, i) ==
    IF i > 4 THEN [distances |-> distances, q |-> q]
    ELSE LET d == FloodOrder[i]
             n == Step(cell, d)
         IN IF SolverOpen(m, cell, d) /\ distances[n] = -1
            THEN SolveVisit(m, [distances EXCEPT ![n] = dist + 1],
                            Append(q, <<n, dist + 1>>), cell, dist, i + 1)
            ELSE SolveVisit(m, distances, q, cell, dist, i + 1)

\* while q  (lines 143-148)
RECURSIVE SolveFlood(_, _, _)
SolveFlood(m, distances, q) ==
    IF q = <<>> THEN distances
    ELSE LET v == SolveVisit(m, distances, Tail(q), Head(q)[1], Head(q)[2], 1)
         IN SolveFlood(m, v.distances, v.q)

\* for gy, gx in target_cells  (lines 141-142)
RECURSIVE SolveSeed(_, _, _, _)
SolveSeed(gs, distances, q, target_cells) ==
    IF target_cells = <<>> THEN [distances |-> distances, q |-> q]
    ELSE LET t == Head(target_cells)
         IN IF InGrid(gs, t)
            THEN SolveSeed(gs, [distances EXCEPT ![t] = 0], Append(q, <<t, 0>>),
                           Tail(target_cells))
            ELSE SolveSeed(gs, distances, q, Tail(target_cells))

\* flood_fill_solve (lines 140-150)
FloodFillSolve(m, target_cells) ==
    LET s == SolveSeed(m.grid_size, [c \in Cells(m.grid_size) |-> -1], <<>>, target_cells)
    IN SolveFlood(m, s.distances, s.q)

\* a neighbour list that does not look at the walls
SolveNeighboursThroughWalls(m, distances, cell) ==
    SelectSeq(<<N4, E4, S4, W4>>,
              LAMBDA d : /\ SolverOpenNoWalls(m, cell, d)
                         /\ distances[Step(cell, d)] = distances[cell] - 1)

\* the list neighbors of lines 174-186, as directions in the order appended
SolveNeighbours(m, distances, cell) ==
    SelectSeq(<<N4, E4, S4, W4>>,
              LAMBDA d : /\ SolverOpen(m, cell, d)
                         /\ distances[Step(cell, d)] = distances[cell] - 1)

\* the path generation loop (lines 171-206) from cell on
RECURSIVE SolvePath(_, _, _, _, _)
SolvePath(m, distances, cell, path_direction, path) ==
    IF distances[cell] > 0
    THEN LET neighbors == SolveNeighbours(m, distances, cell)
         IN IF neighbors = <<>> THEN [path |-> path, stuck |-> TRUE]
            ELSE LET best == IF /\ Len(neighbors) > 1
                                /\ \E i \in 1..Len(neighbors) : neighbors[i] = path_direction
                             THEN path_direction ELSE neighbors[1]
                 IN SolvePath(m, distances, Step(cell, best), best,
                              Append(path, Step(cell, best)))
    ELSE [path |-> path, stuck |-> FALSE]

\* Python's round(rotation_y / 90) for whole degrees: halves go to the even
\* neighbour
RoundQuarter(rotation_y) ==
    LET q == rotation_y \div 90
        r == rotation_y % 90
    IN IF 2 * r < 90 THEN q
       ELSE IF 2 * r > 90 THEN q + 1
       ELSE IF q % 2 = 0 THEN q ELSE q + 1

\* lines 165-169 and 220-224
Heading(rotation_y) ==
    LET angle == (RoundQuarter(rotation_y) * 90) % 360
    IN IF 315 <= angle \/ angle < 45 THEN N4
       ELSE IF 45 <= angle /\ angle < 135 THEN E4
       ELSE IF 135 <= angle /\ angle < 225 THEN S4
       ELSE W4

Turn(a) == [a |-> a, n |-> 0]
Forward(n) == [a |-> "forward", n |-> n]

\* a half turn written as a right and a left turn
TurnActionsBackAndForth(turn) ==
    CASE turn = 1 -> <<Turn("right")>>
      [] turn = 2 -> <<Turn("right"), Turn("left")>>
      [] turn = 3 -> <<Turn("left")>>
      [] OTHER -> <<>>

\* lines 238-240
TurnActions(turn) ==
    CASE turn = 1 -> <<Turn("right")>>
      [] turn = 2 -> <<Turn("right"), Turn("right")>>
      [] turn = 3 -> <<Turn("left")>>
      [] OTHER -> <<>>

\* for i in range(len(path))  (lines 227-244) from index i on
RECURSIVE SimpleActions(_, _, _, _, _)
SimpleActions(path, i, last_pos, current_dir, simple_actions) ==
    IF i > Len(path) THEN simple_actions
    ELSE LET dx == path[i][2] - last_pos[2]
             dy == path[i][1] - last_pos[1]
         IN IF dy # -1 /\ dx # 1 /\ dy # 1 /\ dx # -1
            THEN SimpleActions(path, i + 1, last_pos, current_dir, simple_actions)
            ELSE LET required_dir == IF dy = -1 THEN N4 ELSE IF dx = 1 THEN E4
                                     ELSE IF dy = 1 THEN S4 ELSE W4
                     turn == (required_dir - current_dir + 4) % 4
                 IN SimpleActions(path, i + 1, path[i], required_dir,
                                  simple_actions \o TurnActions(turn) \o <<Forward(1)>>)

\* the number of 'forward' entries at the head of simple_actions
RECURSIVE ForwardRun(_)
ForwardRun(simple_actions) ==
    IF simple_actions # <<>> /\ Head(simple_actions).a = "forward"
    THEN 1 + ForwardRun(Tail(simple_actions)) ELSE 0

\* lines 246-258
RECURSIVE ProcessActions(_)
ProcessActions(simple_actions) ==
    IF simple_actions = <<>> THEN <<>>
    ELSE IF Head(simple_actions).a = "forward"
    THEN LET count == ForwardRun(simple_actions)
         IN <<Forward(count)>>
              \o ProcessActions(SubSeq(simple_actions, count + 1, Len(simple_actions)))
    ELSE <<Head(simple_actions)>> \o ProcessActions(Tail(simple_actions))

\* generate_solve_actions (lines 152-261) for a robot on the cell start with
\* the rotation rotation_y: the distances, the path and solve_actions
GenerateSolveActions(m, target_cells, start, rotation_y) ==
    LET distances == FloodFillSolve(m, target_cells)
    IN IF distances[start] = -1
       THEN [distances |-> distances, path |-> <<>>, stuck |-> FALSE, solve_actions |-> <<>>]
       ELSE LET p == SolvePath(m, distances, start, Heading(rotation_y), <<>>)
            IN [distances |-> distances, path |-> p.path, stuck |-> p.stuck,
                solve_actions |-> ProcessActions(
                    SimpleActions(p.path, 1, start, Heading(rotation_y), <<>>))]

\* what update does with a route (lines 270-285): 'left' and 'right' turn
\* the robot by a quarter, ('forward', n) moves it n cells ahead; the result
\* is the cells entered, in order
RECURSIVE Replay(_, _, _)
Replay(route, cell, dir) ==
    IF route = <<>> THEN <<>>
    ELSE LET e == Head(route)
         IN IF e.a = "left" THEN Replay(Tail(route), cell, (dir + 3) % 4)
            ELSE IF e.a = "right" THEN Replay(Tail(route), cell, (dir + 1) % 4)
            ELSE IF e.n <= 0 THEN Replay(Tail(route), cell, dir)
            ELSE <<Step(cell, dir)>>
                   \o Replay(<<Forward(e.n - 1)>> \o Tail(route), Step(cell, dir), dir)

(***************************************************************************)
(* SpecSolve: generate_solve_actions applied to a generated grid, or to    *)
(* one of the 4x4 mazes, with the robot on any cell and with any of the    *)
(* rotations below, for target cells in and outside the grid.              *)
(***************************************************************************)
SolveGrids ==
    UNION {GridsOfSize(gs, {{}}) : gs \in 1..MaxGridSize} \cup {HomeMaze.md, OpenMaze.md}

\* player.rotation_y in whole degrees
Rotations == {0, 90, 180, -90, 45, 135}

SolveTargets(m) ==
    LET gs == m.grid_size
    IN {<<>>, <<<<0, 0>>>>, <<<<gs - 1, gs - 1>>, <<0, gs - 1>>>>, <<<<-1, 0>>, <<gs, gs>>>>}
         \cup (IF m.goal_cells = {} THEN {} ELSE {<<<<2, 1>>, <<3, 2>>>>})

InitSolve ==
    /\ \E m \in SolveGrids : \E target_cells \in SolveTargets(m) :
       \E start \in Cells(m.grid_size), rotation_y \in Rotations :
          arg = [op |-> "solve", m |-> m, target_cells |-> target_cells,
                 start |-> start, rotation_y |-> rotation_y]
    /\ res = [op |-> "none"]
    /\ NoGame

DoGenerateSolveActions ==
    /\ arg.op = "solve" /\ res.op = "none"
    /\ res' = [op |-> "solve",
               r |-> GenerateSolveActions(arg.m, arg.target_cells, arg.start, arg.rotation_y)]
    /\ UNCHANGED <<arg, gameVars>>

NextSolve == DoGenerateSolveActions
SpecSolve == InitSolve /\ [][NextSolve]_vars

\* the cells of the route: the start cell, then the path
Visited == <<arg.start>> \o res.r.path

\* the step from a to b crosses a side of a that is not a wall, inside the grid
OpenEdge(m, a, b) ==
    /\ InGrid(m.grid_size, b)
    /\ \E d \in Dirs : b = Step(a, d) /\ ~has_wall(m, a[1], a[2], d)

\* C39: if the robot's cell has a flood-fill distance d >= 0 to the target
\* cells, the path has exactly d steps, each across a non-walled edge to a
\* cell of the grid whose distance is one less, and ends on a target cell;
\* the path generation is never stuck; and if the distance is -1 the route
\* is empty.
C39_PathDescends ==
    res.op = "solve" =>
        LET dist == res.r.distances
        IN /\ ~res.r.stuck
           /\ dist[arg.start] >= 0 =>
                 /\ Len(res.r.path) = dist[arg.start]
                 /\ \A i \in 1..Len(res.r.path) :
                       /\ OpenEdge(arg.m, Visited[i], Visited[i + 1])
                       /\ dist[Visited[i + 1]] = dist[Visited[i]] - 1
                 /\ \E k \in 1..Len(arg.target_cells) :
                       arg.target_cells[k] = Visited[Len(Visited)]
           /\ dist[arg.start] = -1 => res.r.solve_actions = <<>>

\* a path of three steps with a turn, in the corridor maze
C39_Witness ==
    /\ res.op = "solve" /\ arg.m = HomeMaze.md /\ arg.start = <<1, 3>>
    /\ res.r.path = <<<<1, 2>>, <<1, 1>>, <<2, 1>>>>

\* the sum of the counts of the ('forward', n) entries of route
RECURSIVE ForwardSum(_)
ForwardSum(route) ==
    IF route = <<>> THEN 0
    ELSE (IF Head(route).a = "forward" THEN Head(route).n ELSE 0) + ForwardSum(Tail(route))

IsTurn(e) == e.a \in {"left", "right"}

\* C40: replaying solve_actions from the robot's cell and heading, a 'left'
\* or 'right' as a quarter turn and ('forward', n) as n cells ahead, enters
\* exactly the cells of the path in order; the forward counts are positive
\* and add up to the length of the path; no two forward entries are adjacent;
\* and two turns are adjacent only as the two 'right' of a half turn.
C40_RouteEncodesPath ==
    res.op = "solve" =>
        LET route == res.r.solve_actions
        IN /\ Replay(route, arg.start, Heading(arg.rotation_y)) = res.r.path
           /\ ForwardSum(route) = Len(res.r.path)
           /\ \A i \in 1..Len(route) : route[i].a = "forward" => route[i].n >= 1
           /\ \A i \in 1..(Len(route) - 1) :
                 /\ ~(route[i].a = "forward" /\ route[i + 1].a = "forward")
                 /\ (IsTurn(route[i]) /\ IsTurn(route[i + 1]))
                       => /\ route[i].a = "right" /\ route[i + 1].a = "right"
                          /\ i + 2 <= Len(route) /\ route[i + 2].a = "forward"
                          /\ (i > 1 => route[i - 1].a = "forward")
           /\ (res.r.path # <<>> /\ res.r.path[1] = Step(arg.start, Opposite(Heading(arg.rotation_y))))
                 => (Len(route) >= 3 /\ route[1].a = "right" /\ route[2].a = "right")

\* the robot faces east on the east end of the corridor: a half turn, two
\* cells ahead, a left turn and one cell ahead
C40_Witness ==
    /\ res.op = "solve" /\ arg.m = HomeMaze.md /\ arg.start = <<1, 3>> /\ arg.rotation_y = 90
    /\ res.r.solve_actions
          = <<Turn("right"), Turn("right"), Forward(2), Turn("left"), Forward(1)>>

====
